---- MODULE Spec2Model ----
(***************************************************************************)
(* Super Productivity dashboard (r_spdash): the loader, the entity         *)
(* normaliser, the task-to-project join, the day aggregator, the tag pie   *)
(* and the colour/icon lookup, as state machines over one backup snapshot. *)
(*                                                                         *)
(* Durations are integers.  Every millisecond value of the snapshots below *)
(* is a whole number of minutes, so the float divisions ms / 1000 / 60 of  *)
(* the code are exact and are computed with \div.                          *)
(***************************************************************************)
EXTENDS Integers, Sequences, FiniteSets, TLC

\* Largest number of task entities in a snapshot.
MaxTasks == 2
\* Largest number of backup-like files on disk, and largest modification time.
MaxFiles == 2
MaxMtime == 2

VARIABLES
    dirs,          \* the search locations whose directory exists
    files,         \* the backup-like files on disk
    result,        \* what load_data returned or raised
    info,          \* what get_most_recent_file_info returned
    opened,        \* the files the loader has opened, in order
    data,          \* the parsed raw structure (load_super_productivity_data()['data'])
    df_tasks,      \* task table: normalize_tasks, then the join
    df_projects,   \* project table: normalize_projects
    df_all_time,   \* day table: build_time_by_day
    project_colors, project_icons,   \* ColorIconSync: title -> colour, title -> icon
    tag_colors, tag_icons,
    answer,        \* the last value a ColorIconSync getter returned
    df_time_per_day,       \* create_figures: per-day totals and their running sum
    time_per_project,      \* create_figures: the per-project pie
    df_avg_workday_proj,   \* create_figures: the weekday chart
    tag_time,      \* create_tags_pie_chart: total per tag id
    fig_tags,      \* create_tags_pie_chart: the pie
    fig_counters,  \* create_simple_counter_plots: the water, media and workout plots
    shown,         \* what the page shows: the load error, or the plots
    session_state, \* st.session_state: holds plot_page once a page was rendered
    plot_keys,     \* the keys of the plots of the paginated dashboard
    total_minutes, \* the argument of minutes_to_hm_str
    hm_str,        \* what minutes_to_hm_str returned
    pc,            \* position of the render cycle
    exc            \* exception that ended the cycle, "" when none

tableVars == <<df_tasks, df_projects, df_all_time>>
syncVars == <<project_colors, project_icons, tag_colors, tag_icons>>
figVars == <<df_time_per_day, time_per_project, df_avg_workday_proj>>
chartVars == <<figVars, tag_time, fig_tags, fig_counters>>
loaderVars == <<dirs, files, result, info, opened>>
pageVars == <<session_state, plot_keys>>
hmVars == <<total_minutes, hm_str>>
vars == <<loaderVars, data, tableVars, syncVars, answer, chartVars, shown, pageVars, hmVars,
          pc, exc>>

(***************************************************************************)
(* Helpers                                                                 *)
(***************************************************************************)
\* Variant: an empty list is truthy.
Truthy_AnyList(f) == f.k = "list"

\* Python truthiness of an optional list field: None and [] are falsy.
Truthy(f) == f.k = "list" /\ Len(f.v) > 0

\* Variant: the division by 60 is left out.
MsToMinutes_Seconds(ms) == ms \div 1000

\* ms / 1000 / 60
MsToMinutes(ms) == (ms \div 1000) \div 60

\* A JSON field: k is "absent" when the key is missing and the JSON type of the
\* value otherwise; v is the value.
Absent == [k |-> "absent", v |-> <<>>]
Null == [k |-> "null", v |-> <<>>]
ListOf(s) == [k |-> "list", v |-> s]
MapOf(s) == [k |-> "map", v |-> s]
StrOf(s) == [k |-> "str", v |-> s]
NumOf(n) == [k |-> "num", v |-> n]

\* field.get(key, default)
GetOr(field, default) == IF field.k = "absent" THEN default ELSE field

(***************************************************************************)
(* Snapshots                                                               *)
(***************************************************************************)
ProjectIds == <<"p1", "p2">>
NoProjectId == "p0"
ProjectTitles == {"Work", "Home"}
Days == <<"2024-01-01", "2024-01-02">>
\* The Monday after Days[1].
NextMonday == "2024-01-08"

\* pd.to_datetime(day): the day number of a date string.
ToDatetime(day) ==
    CASE day = "2024-01-01" -> 19723
      [] day = "2024-01-02" -> 19724
      [] day = "2024-01-08" -> 19730

\* A project or tag entity with a title and neither theme nor icon.
PlainEntity(id, t) == [id |-> id, title |-> StrOf(t), theme |-> Absent, icon |-> Absent]

\* The project collections: none, one project, two projects of different or of
\* equal titles.
ProjectEntitySeqs ==
    {<<>>, <<PlainEntity(ProjectIds[1], "Work")>>,
     <<PlainEntity(ProjectIds[1], "Work"), PlainEntity(ProjectIds[2], "Home")>>,
     <<PlainEntity(ProjectIds[1], "Work"), PlainEntity(ProjectIds[2], "Work")>>}

SubTaskIdValues == {Absent, ListOf(<<>>), ListOf(<<"sub">>)}

TimeSpentOnDayValues ==
    {Absent,
     MapOf(<<[day |-> Days[1], ms |-> 60000]>>),
     MapOf(<<[day |-> Days[2], ms |-> 120000], [day |-> Days[1], ms |-> 5400000]>>)}

RECURSIVE SumMs(_)
SumMs(s) == IF s = <<>> THEN 0 ELSE Head(s).ms + SumMs(Tail(s))

\* The keys normalize_tasks subscripts, in the order it reads them.  The field
\* lacks of a task entity names those of them the entity does not have.
SubscriptedKeys ==
    <<"id", "title", "isDone", "timeSpent", "timeEstimate", "created", "projectId">>

\* The fields the day and tag snapshots do not vary: every subscripted key is
\* there, no estimate (0), neither doneOn nor notes.
PlainTask == [lacks |-> {}, timeEstimate |-> NumOf(0), doneOn |-> Absent, notes |-> Absent]

\* Task entities of the day-aggregation snapshots; timeSpent is the sum of the days.
DayTaskEntities(i) ==
    {[id |-> i, projectId |-> p, subTaskIds |-> s, timeSpentOnDay |-> d,
      timeSpent |-> SumMs(d.v), tagIds |-> Absent] @@ PlainTask :
        p \in {ProjectIds[1], ProjectIds[2], NoProjectId},
        s \in SubTaskIdValues, d \in TimeSpentOnDayValues}

RECURSIVE DayTaskSeqs(_)
\* The task collections of n entities, ids 1..n in insertion order.
DayTaskSeqs(n) ==
    IF n = 0 THEN {<<>>}
    ELSE {Append(s, e) : s \in DayTaskSeqs(n - 1), e \in DayTaskEntities(n)}

NoTags == Absent

\* data['task']['entities'][id]
TaskEntity(d, id) == d.task[CHOOSE i \in 1..Len(d.task) : d.task[i].id = id]

(***************************************************************************)
(* normalize_tasks / normalize_projects                                    *)
(***************************************************************************)
\* Python truthiness of a number field: None and 0 are falsy.
TruthyNumber(f) == f.k = "num" /\ f.v # 0

\* datetime.fromtimestamp(ms / 1000), in whole seconds.
FromTimestamp(ms) == ms \div 1000

\* value / 1000 / 60 if value else None
MinutesOrNone(f) == IF TruthyNumber(f) THEN NumOf(MsToMinutes(f.v)) ELSE Null

\* datetime.fromtimestamp(task['doneOn'] / 1000) if task.get('doneOn') else None
DoneOn(f) == IF TruthyNumber(f) THEN NumOf(FromTimestamp(f.v)) ELSE Null

\* Variant: every task is taken for a leaf.
NormalizeTaskRow_AllLeaf(task) ==
    [id |-> task.id,
     timeSpent |-> MsToMinutes(task.timeSpent),
     timeEstimate |-> MinutesOrNone(task.timeEstimate),
     doneOn |-> DoneOn(task.doneOn),
     projectId |-> task.projectId,
     notes |-> GetOr(task.notes, StrOf("")),
     tagIds |-> IF task.tagIds.k = "absent" THEN <<>> ELSE task.tagIds.v,
     is_leaf |-> TRUE]

NormalizeTaskRow(task) ==
    [id |-> task.id,
     timeSpent |-> MsToMinutes(task.timeSpent),
     timeEstimate |-> MinutesOrNone(task.timeEstimate),
     doneOn |-> DoneOn(task.doneOn),
     projectId |-> task.projectId,
     notes |-> GetOr(task.notes, StrOf("")),
     tagIds |-> IF task.tagIds.k = "absent" THEN <<>> ELSE task.tagIds.v,
     is_leaf |-> ~Truthy(task.subTaskIds)]

\* normalize_tasks: the table, or the KeyError of the first entity that lacks a
\* subscripted key.
normalize_tasks(d) ==
    IF \E i \in 1..Len(d.task) : d.task[i].lacks # {}
    THEN [exc |-> "KeyError", value |-> <<>>]
    ELSE [exc |-> "", value |-> [i \in 1..Len(d.task) |-> NormalizeTaskRow(d.task[i])]]

normalize_projects(d) ==
    [i \in 1..Len(d.project) |-> [id |-> d.project[i].id, title |-> d.project[i].title.v]]

(***************************************************************************)
(* df_tasks.merge(df_projects, left_on='projectId', right_on='id')         *)
(***************************************************************************)
RECURSIVE MatchRows_Cross(_, _)
\* Variant: the join forgets its key and pairs the task with every project.
MatchRows_Cross(row, projs) ==
    IF projs = <<>> THEN <<>>
    ELSE LET p == Head(projs)
         IN <<row @@ [id_project |-> p.id, title_project |-> p.title]>>
            \o MatchRows_Cross(row, Tail(projs))

RECURSIVE MatchRows(_, _)
\* The rows of one task joined with every project row of the same id.
MatchRows(row, projs) ==
    IF projs = <<>> THEN <<>>
    ELSE LET p == Head(projs)
             rest == MatchRows(row, Tail(projs))
         IN IF p.id = row.projectId
            THEN <<row @@ [id_project |-> p.id, title_project |-> p.title]>> \o rest
            ELSE rest

RECURSIVE merge(_, _)
\* Inner join, in the order of the left table.
merge(tasks, projs) ==
    IF tasks = <<>> THEN <<>>
    ELSE MatchRows(Head(tasks), projs) \o merge(Tail(tasks), projs)

(***************************************************************************)
(* build_time_by_day                                                       *)
(***************************************************************************)
IndexOfDay(acc, day) ==
    IF \E i \in 1..Len(acc) : acc[i].day = day
    THEN CHOOSE i \in 1..Len(acc) : acc[i].day = day ELSE 0

IndexOfProject(ps, project) ==
    IF \E j \in 1..Len(ps) : ps[j].project = project
    THEN CHOOSE j \in 1..Len(ps) : ps[j].project = project ELSE 0

\* Variant: the bucket is assigned, not added to.
AddMinutes_Assign(acc, day, project, minutes) ==
    LET i == IndexOfDay(acc, day)
        cell == [project |-> project, minutes |-> minutes]
    IN IF i = 0 THEN Append(acc, [day |-> day, projs |-> <<cell>>])
       ELSE LET j == IndexOfProject(acc[i].projs, project)
            IN IF j = 0 THEN [acc EXCEPT ![i].projs = Append(@, cell)]
               ELSE [acc EXCEPT ![i].projs[j].minutes = minutes]

\* all_time_by_day[day][project] += minutes, on insertion-ordered defaultdicts.
AddMinutes(acc, day, project, minutes) ==
    LET i == IndexOfDay(acc, day)
        cell == [project |-> project, minutes |-> 0 + minutes]
    IN IF i = 0 THEN Append(acc, [day |-> day, projs |-> <<cell>>])
       ELSE LET j == IndexOfProject(acc[i].projs, project)
            IN IF j = 0 THEN [acc EXCEPT ![i].projs = Append(@, cell)]
               ELSE [acc EXCEPT ![i].projs[j].minutes = @ + minutes]

RECURSIVE AddDays(_, _, _)
\* The inner loop over timeSpentOnDay.items().
AddDays(acc, project, items) ==
    IF items = <<>> THEN acc
    ELSE AddDays(AddMinutes(acc, Head(items).day, project, MsToMinutes(Head(items).ms)),
                 project, Tail(items))

RECURSIVE AccumulateRows(_, _, _)
\* The loop over df_tasks[df_tasks['is_leaf']].iterrows().
AccumulateRows(acc, rows, d) ==
    IF rows = <<>> THEN acc
    ELSE LET task == Head(rows)
             entity == TaskEntity(d, task.id)
             acc2 == IF task.is_leaf /\ entity.timeSpentOnDay.k # "absent"
                     THEN AddDays(acc, task.title_project, entity.timeSpentOnDay.v)
                     ELSE acc
         IN AccumulateRows(acc2, Tail(rows), d)

RECURSIVE ProjRows(_, _)
ProjRows(day, ps) ==
    IF ps = <<>> THEN <<>>
    ELSE <<[date |-> ToDatetime(day), project |-> Head(ps).project,
            minutes |-> Head(ps).minutes]>> \o ProjRows(day, Tail(ps))

RECURSIVE DayRows(_)
DayRows(acc) ==
    IF acc = <<>> THEN <<>>
    ELSE ProjRows(Head(acc).day, Head(acc).projs) \o DayRows(Tail(acc))

build_time_by_day(tasks, d) == DayRows(AccumulateRows(<<>>, tasks, d))

(***************************************************************************)
(* The state before anything was loaded, normalised or looked up           *)
(***************************************************************************)
\* The page: the text of st.error, and the keys of the plots it can show.
NoPage == [error |-> "", plots |-> {}]
ErrorPage(e) == [error |-> e, plots |-> {}]

NoResult == [st |-> "none", exc |-> "", msg |-> "", value |-> <<>>, path |-> 0]
NoInfo == [st |-> "none", path |-> 0, mtime |-> 0]

NoTables == df_tasks = <<>> /\ df_projects = <<>> /\ df_all_time = <<>>

NoSync ==
    /\ project_colors = <<>> /\ project_icons = <<>>
    /\ tag_colors = <<>> /\ tag_icons = <<>>
    /\ answer = <<>>
    /\ df_time_per_day = <<>> /\ time_per_project = <<>> /\ df_avg_workday_proj = <<>>
    /\ tag_time = <<>> /\ fig_tags = <<>> /\ fig_counters = <<>>
    /\ shown = NoPage
    /\ session_state = <<>> /\ plot_keys = <<>>
    /\ total_minutes = 0 /\ hm_str = ""

(***************************************************************************)
(* SuperProductivityDataLoader                                             *)
(*                                                                         *)
(* A file holds bytes that cannot be opened, cannot be decoded, are not    *)
(* JSON, or are a JSON value.  A JSON value is known by its type and by    *)
(* which of the names task, project and data it has: as keys of an object, *)
(* as elements of an array, or as substrings of a string - the three       *)
(* meanings of Python's `in`.  An object with the key data also holds the  *)
(* value under that key.                                                   *)
(***************************************************************************)
\* The search locations of __init__, in order.
search_locations == <<"backups", "Downloads", ".">>

Nothing == [k |-> "none", has |-> {}, data |-> <<>>]
Inner(k, has) == [k |-> k, has |-> has, data |-> <<>>]
Value(k, has, inner) == [k |-> k, has |-> has, data |-> inner]
Wrap(v) == [k |-> "obj", has |-> {"data"}, data |-> v]

expected_entities == {"task", "project"}

Contents ==
    {Value("unreadable", {}, Nothing), Value("undecodable", {}, Nothing),
     Value("notjson", {}, Nothing), Value("scalar", {}, Nothing),
     Value("str", {}, Nothing), Value("str", {"task", "project"}, Nothing),
     Value("str", {"task", "project", "data"}, Nothing),
     Value("arr", {}, Nothing), Value("arr", {"task", "project"}, Nothing),
     Value("arr", {"data"}, Nothing),
     Value("obj", {}, Nothing), Value("obj", {"task"}, Nothing),
     Value("obj", {"task", "project"}, Nothing),
     Value("obj", {"data"}, Inner("obj", {"task", "project"})),
     Value("obj", {"data"}, Inner("obj", {})),
     Value("obj", {"data"}, Inner("scalar", {})),
     Value("obj", {"task", "project", "data"}, Inner("obj", {}))}

\* The location a file lies in.
LocationOf(i) == ((i - 1) % Len(search_locations)) + 1

\* The states of a file: absent; a backup whose name does not match the glob
\* of its location; matching, but os.path.getmtime fails; matching with an mtime.
FileStates ==
    {[st |-> s, mtime |-> 0, content |-> Nothing] : s \in {"absent", "stale"}} \cup
    {[st |-> "other", mtime |-> m, content |-> Value("obj", expected_entities, Nothing)] :
        m \in 1..MaxMtime} \cup
    {[st |-> "ok", mtime |-> m, content |-> c] : m \in 1..MaxMtime, c \in Contents}

\* Variant: every file of the directory is taken, whatever its name.
Globbed_AnyName(fs, loc) ==
    SelectSeq([i \in 1..MaxFiles |-> i],
              LAMBDA i : LocationOf(i) = loc /\ fs[i].st # "absent")

\* glob.glob(os.path.join(directory, pattern))
Globbed(fs, loc) ==
    SelectSeq([i \in 1..MaxFiles |-> i],
              LAMBDA i : LocationOf(i) = loc /\ fs[i].st \in {"stale", "ok"})

RECURSIVE FindIn(_, _, _)
\* find_json_files from location loc on: the globbed files of the existing
\* locations, less those on which os.path.getmtime raises OSError.
FindIn(ds, fs, loc) ==
    IF loc > Len(search_locations) THEN <<>>
    ELSE IF loc \notin ds THEN FindIn(ds, fs, loc + 1)
    ELSE LET found == SelectSeq(Globbed(fs, loc), LAMBDA i : fs[i].st # "stale")
         IN [n \in 1..Len(found) |-> [path |-> found[n], mtime |-> fs[found[n]].mtime]]
            \o FindIn(ds, fs, loc + 1)

find_json_files(ds, fs) == FindIn(ds, fs, 1)

\* Variant: the first file found, whatever its modification time.
get_most_recent_file_First(json_files) == json_files[1]

\* sorted(json_files, key=mtime, reverse=True)[0]: the sort is stable, so among
\* the files of the latest mtime the first found is taken.
get_most_recent_file(json_files) ==
    json_files[CHOOSE n \in 1..Len(json_files) :
        /\ \A m \in 1..Len(json_files) : json_files[m].mtime <= json_files[n].mtime
        /\ \A m \in 1..(n - 1) : json_files[m].mtime < json_files[n].mtime]

\* name in value: the answer, or the TypeError of a value that is no container.
In(name, v) ==
    IF v.k \in {"obj", "arr", "str"} THEN [exc |-> "", value |-> name \in v.has]
    ELSE [exc |-> "TypeError", value |-> FALSE]

\* all(entity in value for entity in expected_entities)
AllIn(v) ==
    IF In("task", v).exc # "" THEN [exc |-> "TypeError", value |-> FALSE]
    ELSE [exc |-> "", value |-> expected_entities \subseteq v.has]

\* validate_super_productivity_file: True, False, or the exception that leaves it.
validate_super_productivity_file(content) ==
    CASE content.k \in {"unreadable", "notjson"} -> [exc |-> "", value |-> FALSE]
      [] content.k = "undecodable" -> [exc |-> "UnicodeDecodeError", value |-> FALSE]
      [] OTHER ->
           IF AllIn(content).exc # "" THEN AllIn(content)
           ELSE IF AllIn(content).value THEN [exc |-> "", value |-> TRUE]
           ELSE IF In("data", content).value
                THEN IF content.k # "obj" THEN [exc |-> "TypeError", value |-> FALSE]
                     ELSE AllIn(content.data)
                ELSE [exc |-> "", value |-> FALSE]

\* The text of an exception: the two ValueError and the FileNotFoundError
\* texts of load_data, and Python's own for the exceptions it does not raise.
NotFoundMessage == "No JSON files found in the specified directories"
NotValidMessage == "is not a valid SuperProductivity backup"
PythonMessage(e) ==
    CASE e = "TypeError" -> "argument is not iterable"
      [] e = "UnicodeDecodeError" -> "codec can't decode byte"
      [] OTHER -> ""

Raised(e, m) == [st |-> "raised", exc |-> e, msg |-> m, value |-> <<>>, path |-> 0]
Returned(v, p) == [st |-> "returned", exc |-> "", msg |-> "", value |-> v, path |-> p]

\* load_data on a file system.
load_data(ds, fs) ==
    LET json_files == find_json_files(ds, fs)
    IN IF json_files = <<>> THEN Raised("FileNotFoundError", NotFoundMessage)
       ELSE LET most_recent == get_most_recent_file(json_files)
                content == fs[most_recent.path].content
                valid == validate_super_productivity_file(content)
            IN IF valid.exc # "" THEN Raised(valid.exc, PythonMessage(valid.exc))
               ELSE IF ~valid.value THEN Raised("ValueError", NotValidMessage)
               ELSE IF "task" \in content.has /\ "project" \in content.has
                       /\ "data" \notin content.has
                    THEN Returned(Wrap(content), most_recent.path)
                    ELSE Returned(content, most_recent.path)

\* isinstance(exception, cls) for the exception classes of the loader.
IsInstance(e, cls) ==
    \/ e = cls
    \/ e = "UnicodeDecodeError" /\ cls = "ValueError"
    \/ e = "FileNotFoundError" /\ cls = "OSError"

\* The files load_data opens: the most recent one in the validation, and
\* once more to load it when the validation returned True.
Opens(ds, fs) ==
    LET json_files == find_json_files(ds, fs)
    IN IF json_files = <<>> THEN <<>>
       ELSE LET most_recent == get_most_recent_file(json_files)
                valid == validate_super_productivity_file(fs[most_recent.path].content)
            IN IF valid.exc = "" /\ valid.value
               THEN <<most_recent.path, most_recent.path>>
               ELSE <<most_recent.path>>

\* load_super_productivity_data()['data']: the exception of load_data, the
\* TypeError of subscripting a string or a list with 'data', or nothing.
LoadException(r) ==
    IF r.st = "raised" THEN r.exc
    ELSE IF r.value.k = "obj" THEN "" ELSE "TypeError"

\* The first statement of the script: an exception is shown with st.error and
\* the script stops.
LoadData ==
    /\ pc = "start"
    /\ result' = load_data(dirs, files)
    /\ opened' = opened \o Opens(dirs, files)
    /\ IF LoadException(result') # ""
       THEN /\ exc' = LoadException(result')
            /\ shown' = ErrorPage(exc')
            /\ pc' = "failed"
       ELSE /\ pc' = "loaded"
            /\ UNCHANGED <<exc, shown>>
    /\ UNCHANGED <<dirs, files, info, data, tableVars, syncVars, answer, chartVars,
                   pageVars, hmVars>>

\* Variant: the metadata of the first file found.
get_most_recent_file_info_First(ds, fs) ==
    LET json_files == find_json_files(ds, fs)
    IN IF json_files = <<>> THEN [st |-> "None", path |-> 0, mtime |-> 0]
       ELSE [st |-> "info", path |-> json_files[1].path, mtime |-> json_files[1].mtime]

\* get_most_recent_file_info: None, or the path and mtime of the latest file.
get_most_recent_file_info(ds, fs) ==
    LET json_files == find_json_files(ds, fs)
    IN IF json_files = <<>> THEN [st |-> "None", path |-> 0, mtime |-> 0]
       ELSE [st |-> "info", path |-> get_most_recent_file(json_files).path,
             mtime |-> get_most_recent_file(json_files).mtime]

GetMostRecentFileInfo ==
    /\ info.st = "none"
    /\ info' = get_most_recent_file_info(dirs, files)
    /\ UNCHANGED <<dirs, files, result, opened, data, tableVars, syncVars, answer, chartVars,
                   shown, pc, exc,
                   pageVars, hmVars>>

NoData == [task |-> <<>>, project |-> <<>>, tag |-> NoTags, simpleCounter |-> Absent]

\* The file systems: a directory that holds a file exists.
InitLoader ==
    /\ files \in [1..MaxFiles -> FileStates]
    /\ dirs \in SUBSET (1..Len(search_locations))
    /\ \A i \in 1..MaxFiles : files[i].st # "absent" => LocationOf(i) \in dirs
    /\ result = NoResult
    /\ info = NoInfo
    /\ opened = <<>>
    /\ data = NoData
    /\ NoTables
    /\ NoSync
    /\ pc = "start"
    /\ exc = ""

NextLoader == LoadData \/ GetMostRecentFileInfo

SpecLoader == InitLoader /\ [][NextLoader]_vars

\* The disks of the render cycles: at most one file, in the first location.
NoFile == [st |-> "absent", mtime |-> 0, content |-> Nothing]
StockFile ==
    [st |-> "ok", mtime |-> 1,
     content |-> Value("obj", {"data"}, Inner("obj", expected_entities))]
FailingFiles ==
    {NoFile,
     [st |-> "ok", mtime |-> 1, content |-> Value("obj", {}, Nothing)],
     [st |-> "ok", mtime |-> 1, content |-> Value("notjson", {}, Nothing)]}

DiskDirs(f) == IF f.st = "absent" THEN {} ELSE {LocationOf(1)}
DiskFiles(f) == [i \in 1..MaxFiles |-> IF i = 1 THEN f ELSE NoFile]

\* Before the load: file f on disk, nothing loaded.
OnDisk(f) ==
    /\ dirs = DiskDirs(f) /\ files = DiskFiles(f)
    /\ result = NoResult /\ info = NoInfo /\ opened = <<>>

\* After the load of the stock file.
Loaded ==
    /\ dirs = DiskDirs(StockFile) /\ files = DiskFiles(StockFile)
    /\ result = load_data(dirs, files)
    /\ opened = Opens(dirs, files)
    /\ info = NoInfo

(***************************************************************************)
(* ColorIconSync                                                           *)
(*                                                                         *)
(* Colours are sequences of characters, so that startswith('#') is a test  *)
(* on the first character.  Titles and icons are strings; the two default  *)
(* glyphs are written as their code points.                                *)
(***************************************************************************)
DefaultColor == <<"#", "6", "3", "6", "e", "f", "a">>
DefaultProjectIcon == "U+1F4C1"
DefaultTagIcon == "U+1F3F7"

\* bool(x) of a JSON value.
IsTruthy(x) ==
    CASE x.k = "str" -> Len(x.v) > 0
      [] x.k = "num" -> x.v # 0
      [] x.k = "list" -> x.v # <<>>
      [] x.k = "map" -> TRUE
      [] OTHER -> FALSE

\* _extract_primary_color: the colour, or the exception it raises.  A truthy
\* primary that is not a string has no startswith.
extract_primary_color(entity) ==
    LET theme == GetOr(entity.theme, MapOf([primary |-> Absent]))
    IN IF theme.k = "map"
       THEN LET primary_color == GetOr(theme.v.primary, StrOf(<<>>))
            IN IF ~IsTruthy(primary_color) THEN [exc |-> "", value |-> DefaultColor]
               ELSE IF primary_color.k # "str"
                    THEN [exc |-> "AttributeError", value |-> DefaultColor]
                    ELSE IF Head(primary_color.v) = "#"
                         THEN [exc |-> "", value |-> primary_color.v]
                         ELSE [exc |-> "", value |-> DefaultColor]
       ELSE [exc |-> "", value |-> DefaultColor]

\* d[key] = value on a dict held as a function.
DictSet(d, key, value) ==
    [t \in (DOMAIN d) \cup {key} |-> IF t = key THEN value ELSE d[t]]

\* Variant: the icon of a title is set once and kept.
StoreIcon_First(icons, title, entity) ==
    IF title \in DOMAIN icons THEN icons
    ELSE DictSet(icons, title, GetOr(entity.icon, StrOf("")))

\* self.project_icons[title] = project.get('icon', '')
StoreIcon(icons, title, entity) ==
    DictSet(icons, title, GetOr(entity.icon, StrOf("")))

RECURSIVE ExtractEntities(_, _, _)
\* One loop of _extract_colors_and_icons over an entity collection.
ExtractEntities(colors, icons, entities) ==
    IF entities = <<>> THEN [exc |-> "", colors |-> colors, icons |-> icons]
    ELSE LET entity == Head(entities)
             title == GetOr(entity.title, StrOf("")).v
             color == extract_primary_color(entity)
         IN IF color.exc # "" THEN [exc |-> color.exc, colors |-> colors, icons |-> icons]
            ELSE ExtractEntities(DictSet(colors, title, color.value),
                                 StoreIcon(icons, title, entity), Tail(entities))

\* The tag collection, empty when data has no 'tag' key.
TagEntities(d) == IF d.tag.k = "absent" THEN <<>> ELSE d.tag.v

\* dict.get(key, default)
DictGet(d, key, default) == IF key \in DOMAIN d THEN d[key] ELSE default

\* Variant: the fallback is the empty string, as for the icons.
get_project_color_EmptyDefault(name) == DictGet(project_colors, name, <<>>)

get_project_color(name) == DictGet(project_colors, name, DefaultColor)
get_project_icon(name) == DictGet(project_icons, name, StrOf(DefaultProjectIcon))
get_tag_color(name) == DictGet(tag_colors, name, DefaultColor)
get_tag_icon(name) == DictGet(tag_icons, name, StrOf(DefaultTagIcon))

\* f"{icon}": str() of the stored icon value.
Format(icon) == IF icon.k = "null" THEN "None" ELSE icon.v

get_project_display_name(name) == Format(get_project_icon(name)) \o " " \o name
get_tag_display_name(name) == Format(get_tag_icon(name)) \o " " \o name

\* ColorIconSync(data): __init__ and _extract_colors_and_icons.
CreateColorSync ==
    /\ pc = "loaded"
    /\ LET ps == ExtractEntities(<<>>, <<>>, data.project)
           ts == ExtractEntities(<<>>, <<>>, TagEntities(data))
       IN IF ps.exc # "" \/ ts.exc # ""
          THEN /\ exc' = (IF ps.exc # "" THEN ps.exc ELSE ts.exc)
               /\ pc' = "failed"
               /\ shown' = ErrorPage(exc')
               /\ UNCHANGED syncVars
          ELSE /\ project_colors' = ps.colors
               /\ project_icons' = ps.icons
               /\ tag_colors' = ts.colors
               /\ tag_icons' = ts.icons
               /\ pc' = "synced"
               /\ UNCHANGED <<exc, shown>>
    /\ UNCHANGED <<loaderVars, data, tableVars, answer, chartVars,
                   pageVars, hmVars>>

Answer(fn, name, value) ==
    /\ pc = "synced"
    /\ answer' = [fn |-> fn, name |-> name, value |-> value]
    /\ UNCHANGED <<loaderVars, data, shown, tableVars, syncVars, chartVars, pc, exc,
                   pageVars, hmVars>>

\* The names the getters are asked for: the titles of the snapshots, the empty
\* string and a title no snapshot has.
QueryNames == {"Work", "Home", "Deep", "", "unknown-title"}

GetProjectColor == \E name \in QueryNames : Answer("get_project_color", name, get_project_color(name))
GetProjectIcon == \E name \in QueryNames : Answer("get_project_icon", name, get_project_icon(name))
GetTagColor == \E name \in QueryNames : Answer("get_tag_color", name, get_tag_color(name))
GetTagIcon == \E name \in QueryNames : Answer("get_tag_icon", name, get_tag_icon(name))
GetProjectDisplayName ==
    \E name \in QueryNames :
        Answer("get_project_display_name", name, get_project_display_name(name))
GetTagDisplayName ==
    \E name \in QueryNames :
        Answer("get_tag_display_name", name, get_tag_display_name(name))

\* The theme values of an entity.
ThemeValues ==
    {Absent, Null, StrOf(<<"#", "f", "f", "f">>),
     MapOf([primary |-> Absent]), MapOf([primary |-> Null]),
     MapOf([primary |-> StrOf(<<>>)]),
     MapOf([primary |-> StrOf(<<"r", "e", "d">>)]),
     MapOf([primary |-> StrOf(<<"#", "f", "0", "0">>)]),
     MapOf([primary |-> NumOf(5)])}

IconValues == {Absent, Null, StrOf(""), StrOf("U+1F680")}

TitleValues(titles) == {Absent} \cup {StrOf(t) : t \in titles}

\* Entities that vary the theme, and entities that vary the icon.
StyledEntities(id, titles) ==
    {[id |-> id, title |-> t, theme |-> th, icon |-> Absent] :
        t \in TitleValues(titles), th \in ThemeValues} \cup
    {[id |-> id, title |-> t, theme |-> Absent, icon |-> ic] :
        t \in TitleValues(titles), ic \in IconValues}

\* The collections of at most two styled entities.
StyledCollections(ids, titles) ==
    {<<>>} \cup {<<e>> : e \in StyledEntities(ids[1], titles)} \cup
    {<<e, f>> : e \in StyledEntities(ids[1], titles), f \in StyledEntities(ids[2], titles)}

TagIds == <<"t1", "t2">>
TagTitles == {"Deep", "Today"}

\* Snapshots of the colour lookup: the projects vary and the tags are absent or
\* empty, or the tags vary and there is no project.
InitColor ==
    /\ \/ \E ps \in StyledCollections(ProjectIds, ProjectTitles), tg \in {NoTags, MapOf(<<>>)} :
            data = [task |-> <<>>, project |-> ps, tag |-> tg, simpleCounter |-> Absent]
       \/ \E ts \in StyledCollections(TagIds, TagTitles) :
            data = [task |-> <<>>, project |-> <<>>, tag |-> MapOf(ts),
                    simpleCounter |-> Absent]
    /\ Loaded
    /\ NoTables
    /\ NoSync
    /\ pc = "loaded"
    /\ exc = ""

NextColor ==
    \/ CreateColorSync
    \/ GetProjectColor \/ GetProjectIcon \/ GetTagColor \/ GetTagIcon
    \/ GetProjectDisplayName \/ GetTagDisplayName

SpecColor == InitColor /\ [][NextColor]_vars

(***************************************************************************)
(* minutes_to_hm_str                                                       *)
(***************************************************************************)
\* Variant: the minutes are not reduced by the hours.
minutes_to_hm_str_NoCarry(minutes) ==
    LET h == minutes \div 60
        m == minutes
    IN IF h > 0 THEN ToString(h) \o "h " \o ToString(m) \o "m"
       ELSE ToString(m) \o "m"

\* int(round(minutes)) on a whole number of minutes, then 'Hh Mm' or 'Mm'.
minutes_to_hm_str(minutes) ==
    LET h == minutes \div 60
        m == minutes % 60
    IN IF h > 0 THEN ToString(h) \o "h " \o ToString(m) \o "m"
       ELSE ToString(m) \o "m"

\* Largest number of minutes minutes_to_hm_str is applied to.
MaxMinutes == 130

MinutesToHmStr ==
    /\ hm_str = ""
    /\ hm_str' = minutes_to_hm_str(total_minutes)
    /\ UNCHANGED <<loaderVars, data, tableVars, syncVars, answer, chartVars, shown,
                   pageVars, total_minutes, pc, exc>>

(***************************************************************************)
(* create_figures                                                          *)
(*                                                                         *)
(* A mean is taken over one or two dates, of even numbers of minutes in    *)
(* the snapshots, so the float division of mean() is exact and is computed *)
(* with \div.                                                              *)
(***************************************************************************)
weekday_order ==
    <<"Monday", "Tuesday", "Wednesday", "Thursday", "Friday", "Saturday", "Sunday">>

\* Timestamp.day_name() of a day number: day 0 (1970-01-01) is a Thursday.
day_name(date) == weekday_order[((date + 3) % 7) + 1]

\* The project titles in ascending (string) order, the order of a groupby key.
ProjectTitleOrder == <<"Home", "Work">>

RECURSIVE Ascending(_)
\* The numbers of a set in ascending order: the keys of a sorted groupby.
Ascending(S) ==
    IF S = {} THEN <<>>
    ELSE LET m == CHOOSE x \in S : \A y \in S : x <= y
         IN <<m>> \o Ascending(S \ {m})

RECURSIVE SumMinutes(_)
\* rows['minutes'].sum()
SumMinutes(rows) ==
    IF rows = <<>> THEN 0 ELSE Head(rows).minutes + SumMinutes(Tail(rows))

\* df_all_time.groupby('date')['minutes'].sum().reset_index(), with hm_str.
GroupByDate(rows) ==
    LET dates == Ascending({rows[i].date : i \in 1..Len(rows)})
    IN [i \in 1..Len(dates) |->
          LET minutes == SumMinutes(SelectSeq(rows, LAMBDA r : r.date = dates[i]))
          IN [date |-> dates[i], minutes |-> minutes,
              hm_str |-> minutes_to_hm_str(minutes)]]

RECURSIVE InsertByDate(_, _)
InsertByDate(sorted, r) ==
    IF sorted = <<>> THEN <<r>>
    ELSE IF r.date < Head(sorted).date THEN <<r>> \o sorted
    ELSE <<Head(sorted)>> \o InsertByDate(Tail(sorted), r)

RECURSIVE SortByDate(_)
\* df.sort_values('date')
SortByDate(rows) ==
    IF rows = <<>> THEN <<>>
    ELSE InsertByDate(SortByDate(SubSeq(rows, 1, Len(rows) - 1)), rows[Len(rows)])

RECURSIVE Cumsum_Restart(_, _)
\* Variant: the running sum starts again at every row.
Cumsum_Restart(rows, before) ==
    IF rows = <<>> THEN <<>>
    ELSE LET c == Head(rows).minutes
         IN <<Head(rows) @@ [cumulative_minutes |-> c,
                             cumulative_hm_str |-> minutes_to_hm_str(c)]>>
            \o Cumsum_Restart(Tail(rows), c)

RECURSIVE Cumsum(_, _)
\* df['cumulative_minutes'] = df['minutes'].cumsum(), with cumulative_hm_str.
Cumsum(rows, before) ==
    IF rows = <<>> THEN <<>>
    ELSE LET c == before + Head(rows).minutes
         IN <<Head(rows) @@ [cumulative_minutes |-> c,
                             cumulative_hm_str |-> minutes_to_hm_str(c)]>>
            \o Cumsum(Tail(rows), c)

\* Variant: the pie has the projects of the day table only.
TimePerProject_Inner(all_time, projects) ==
    LET timed == SelectSeq(projects, LAMBDA q : \E i \in 1..Len(all_time) :
                                                   all_time[i].project = q.title)
    IN [i \in 1..Len(timed) |->
          LET minutes == SumMinutes(SelectSeq(all_time,
                                              LAMBDA r : r.project = timed[i].title))
          IN [title |-> timed[i].title, minutes |-> minutes,
              hm_str |-> minutes_to_hm_str(minutes),
              display_name |-> get_project_display_name(timed[i].title),
              color |-> get_project_color(timed[i].title)]]

\* The per-project totals, left-merged onto df_projects[['title']]; a title
\* without total gets NaN, then fillna(0).
TimePerProject(all_time, projects) ==
    [i \in 1..Len(projects) |->
        LET group == SelectSeq(all_time, LAMBDA r : r.project = projects[i].title)
            minutes == IF group = <<>> THEN 0 ELSE SumMinutes(group)
        IN [title |-> projects[i].title, minutes |-> minutes,
            hm_str |-> minutes_to_hm_str(minutes),
            display_name |-> get_project_display_name(projects[i].title),
            color |-> get_project_color(projects[i].title)]]

\* df_all_time.groupby(['date', 'project'])['minutes'].sum(), with the weekday:
\* one row for every (date, project) of the day table.
DailyProj(all_time) ==
    {[date |-> k[1], project |-> k[2], weekday |-> day_name(k[1]),
      minutes |-> SumMinutes(SelectSeq(all_time,
                                       LAMBDA r : r.date = k[1] /\ r.project = k[2]))] :
        k \in {<<all_time[i].date, all_time[i].project>> : i \in 1..Len(all_time)}}

RECURSIVE SumOfRows(_)
SumOfRows(S) ==
    IF S = {} THEN 0
    ELSE LET r == CHOOSE x \in S : TRUE IN r.minutes + SumOfRows(S \ {r})

\* groupby(['weekday', 'project'])['minutes'].mean() of one group.
Mean(group) == SumOfRows(group) \div Cardinality(group)

\* The weekday chart: the means, reindexed on weekday_order x all_projects with
\* fill_value=0 and sorted by weekday and project.
AvgWorkdayProj(all_time) ==
    LET daily == DailyProj(all_time)
        all_projects == SelectSeq(ProjectTitleOrder,
                                  LAMBDA t : \E r \in daily : r.project = t)
        n == Len(all_projects)
    IN [k \in 1..(Len(weekday_order) * n) |->
          LET weekday == weekday_order[((k - 1) \div n) + 1]
              project == all_projects[((k - 1) % n) + 1]
              group == {r \in daily : r.weekday = weekday /\ r.project = project}
          IN [weekday |-> weekday, project |-> project,
              minutes |-> IF group = {} THEN 0 ELSE Mean(group)]]

\* The calendar and the figures of the day table.  A day table without rows
\* is a DataFrame without columns: groupby('date') raises KeyError.
CreateFigures ==
    /\ pc = "aggregated"
    /\ IF df_all_time = <<>>
       THEN /\ exc' = "KeyError"
            /\ pc' = "failed"
            /\ UNCHANGED figVars
       ELSE /\ df_time_per_day' = Cumsum(SortByDate(GroupByDate(df_all_time)), 0)
            /\ time_per_project' = TimePerProject(df_all_time, df_projects)
            /\ df_avg_workday_proj' = AvgWorkdayProj(df_all_time)
            /\ pc' = "figures"
            /\ UNCHANGED exc
    /\ UNCHANGED <<loaderVars, data, shown, tableVars, syncVars, answer,
                   tag_time, fig_tags, fig_counters,
                   pageVars, hmVars>>

(***************************************************************************)
(* create_tags_pie_chart                                                   *)
(***************************************************************************)
excluded_tags == {"Today"}
Grey == <<"g", "r", "e", "y">>

\* The tag ids of the snapshots in ascending (string) order, the order in which
\* groupby('tagIds') emits its groups.  t9 is the id of no tag entity.
TagIdOrder == <<"t1", "t2", "t9">>

\* df_tasks[df_tasks['timeSpent'] > 0]
PositiveRows(rows) == SelectSeq(rows, LAMBDA r : r.timeSpent > 0)

\* bool(x) and any(x) on a list of tag ids
has_tag(x) == Len(x) > 0 /\ \E i \in 1..Len(x) : x[i] # ""

\* The number of times id occurs in a list.
Occurrences(x, id) == Cardinality({i \in 1..Len(x) : x[i] = id})

RECURSIVE ExplodedTime_Split(_, _)
\* Variant: a task's time is split evenly between its tags.
ExplodedTime_Split(rows, id) ==
    IF rows = <<>> THEN 0
    ELSE (IF has_tag(Head(rows).tagIds)
          THEN (Occurrences(Head(rows).tagIds, id) * Head(rows).timeSpent)
                   \div Len(Head(rows).tagIds)
          ELSE 0)
         + ExplodedTime_Split(Tail(rows), id)

RECURSIVE ExplodedTime(_, _)
\* explode('tagIds') then the sum of timeSpent in the group of one tag id.
ExplodedTime(rows, id) ==
    IF rows = <<>> THEN 0
    ELSE (IF has_tag(Head(rows).tagIds)
          THEN Occurrences(Head(rows).tagIds, id) * Head(rows).timeSpent
          ELSE 0)
         + ExplodedTime(Tail(rows), id)

RECURSIVE GroupByTag(_, _)
\* df_tagged.groupby('tagIds')['timeSpent'].sum(), without the null and '' ids.
GroupByTag(rows, ids) ==
    IF ids = <<>> THEN <<>>
    ELSE LET id == Head(ids)
             carried == \E i \in 1..Len(rows) :
                           has_tag(rows[i].tagIds) /\ Occurrences(rows[i].tagIds, id) > 0
         IN (IF carried /\ id # ""
             THEN <<[tagIds |-> id, timeSpent |-> ExplodedTime(rows, id)]>>
             ELSE <<>>)
            \o GroupByTag(rows, Tail(ids))

\* 'tag' in data and 'entities' in data['tag']
HasTagEntities(d) == d.tag.k # "absent"

\* tag_map.get(id): the title of the tag entity, NaN for an id without entity.
TagMapTitle(d, id) ==
    LET es == TagEntities(d)
    IN IF \E i \in 1..Len(es) : es[i].id = id
       THEN es[CHOOSE i \in 1..Len(es) : es[i].id = id].title.v
       ELSE "NaN"

\* The 'tag' column of tag_time.
TagLabel(d, id) == IF HasTagEntities(d) THEN TagMapTitle(d, id) ELSE id

\* Variant: no tag is excluded.
all_tags_All(d) ==
    LET es == TagEntities(d)
    IN [i \in 1..Len(es) |-> es[i].title.v]

\* [t for t in tag_map.values() if t not in excluded_tags]
all_tags(d) ==
    LET es == SelectSeq(TagEntities(d), LAMBDA e : e.title.v \notin excluded_tags)
    IN [i \in 1..Len(es) |-> es[i].title.v]

RECURSIVE TagTimeDict(_, _, _)
\* dict(zip(tag_time['tag'], tag_time['timeSpent'])): a later row replaces an
\* earlier one of the same label.
TagTimeDict(dict, d, tt) ==
    IF tt = <<>> THEN dict
    ELSE TagTimeDict(DictSet(dict, TagLabel(d, Head(tt).tagIds), Head(tt).timeSpent),
                     d, Tail(tt))

RECURSIVE UntaggedTime_All(_)
\* Variant: the untagged total takes every row.
UntaggedTime_All(rows) ==
    IF rows = <<>> THEN 0
    ELSE Head(rows).timeSpent + UntaggedTime_All(Tail(rows))

RECURSIVE UntaggedTime(_)
\* df_tags[~df_tags['has_tag']]['timeSpent'].sum()
UntaggedTime(rows) ==
    IF rows = <<>> THEN 0
    ELSE (IF has_tag(Head(rows).tagIds) THEN 0 ELSE Head(rows).timeSpent)
         + UntaggedTime(Tail(rows))

\* The figure: labels, values, colours and hover strings of the slices.
TagsPie(d, tt, rows) ==
    LET pie_labels == all_tags(d)
        dict == TagTimeDict(<<>>, d, tt)
        pie_values == [i \in 1..Len(pie_labels) |-> DictGet(dict, pie_labels[i], 0)]
        untagged_time == UntaggedTime(rows)
        named == [labels |-> [i \in 1..Len(pie_labels) |-> get_tag_display_name(pie_labels[i])],
                  values |-> pie_values,
                  colors |-> [i \in 1..Len(pie_labels) |-> get_tag_color(pie_labels[i])],
                  customdata |-> [i \in 1..Len(pie_labels) |-> minutes_to_hm_str(pie_values[i])]]
    IN IF untagged_time > 0 \/ pie_labels = <<>>
       THEN [labels |-> Append(named.labels, "Untagged"),
             values |-> Append(named.values, untagged_time),
             colors |-> Append(named.colors, Grey),
             customdata |-> Append(named.customdata, minutes_to_hm_str(untagged_time))]
       ELSE named

\* create_tags_pie_chart(df_tasks, data, color_sync).  With no row of positive
\* time, df_tags['tagIds'].iloc[0] raises IndexError; a tag entity without title
\* makes the tag_map comprehension raise KeyError.
CreateTagsPieChart ==
    /\ pc = "figures"
    /\ LET df_tags == PositiveRows(df_tasks)
       IN IF df_tags = <<>>
          THEN /\ exc' = "IndexError"
               /\ pc' = "failed"
               /\ UNCHANGED chartVars
          ELSE IF \E i \in 1..Len(TagEntities(data)) : TagEntities(data)[i].title.k = "absent"
          THEN /\ exc' = "KeyError"
               /\ pc' = "failed"
               /\ UNCHANGED chartVars
          ELSE /\ tag_time' = GroupByTag(df_tags, TagIdOrder)
               /\ fig_tags' = TagsPie(data, tag_time', df_tags)
               /\ pc' = "charted"
               /\ UNCHANGED <<exc, fig_counters, figVars>>
    /\ UNCHANGED <<loaderVars, data, shown, tableVars, syncVars, answer,
                   pageVars, hmVars>>

(***************************************************************************)
(* create_simple_counter_plots                                             *)
(*                                                                         *)
(* Water is counted in litres; media and workout in milliseconds, whole    *)
(* hours in the snapshots below.                                           *)
(***************************************************************************)
CounterNames == <<"water", "media", "workout">>

\* The three hardcoded identifiers.
CounterId(name) ==
    CASE name = "water" -> "wQuxogx-iByRYzzw9_LdZ"
      [] name = "media" -> "a53564Qzc3w2LHXE6c-1_"
      [] name = "workout" -> "dD4T3Ulg16FpTqlkwTtpq"

Green == "#2ca02c"
Red == "#d62728"

\* v * 1.0 for water, v / 1000 / 60 / 60 for media and workout.
Amount(name, v) == IF name = "water" THEN v ELSE ((v \div 1000) \div 60) \div 60

\* Green from 2 litres of water on and below 4 hours of media; workout is green.
BarColor(name, amount) ==
    CASE name = "water" -> IF amount >= 2 THEN Green ELSE Red
      [] name = "media" -> IF amount < 4 THEN Green ELSE Red
      [] OTHER -> Green

HasCounter(d, name) ==
    \E i \in 1..Len(d.simpleCounter.v) : d.simpleCounter.v[i].id = CounterId(name)

\* simple_counters[id]
Counter(d, name) ==
    d.simpleCounter.v[CHOOSE i \in 1..Len(d.simpleCounter.v) :
                          d.simpleCounter.v[i].id = CounterId(name)]

\* The bar plot of one counter.
CounterFigure(d, name) ==
    LET countOnDay == GetOr(Counter(d, name).countOnDay, MapOf(<<>>)).v
    IN [x |-> [i \in 1..Len(countOnDay) |-> ToDatetime(countOnDay[i].day)],
        y |-> [i \in 1..Len(countOnDay) |-> Amount(name, countOnDay[i].count)],
        marker_color |-> [i \in 1..Len(countOnDay) |->
                            BarColor(name, Amount(name, countOnDay[i].count))]]

\* create_simple_counter_plots: the three plots, or the KeyError of
\* data['simpleCounter'] or of the first identifier that is not there.
create_simple_counter_plots(d) ==
    IF d.simpleCounter.k = "absent" THEN [exc |-> "KeyError", value |-> <<>>]
    ELSE IF \E n \in 1..Len(CounterNames) : ~HasCounter(d, CounterNames[n])
    THEN [exc |-> "KeyError", value |-> <<>>]
    ELSE [exc |-> "",
          value |-> [name \in {"water", "media", "workout"} |-> CounterFigure(d, name)]]

CreateSimpleCounterPlots ==
    /\ pc = "charted"
    /\ IF create_simple_counter_plots(data).exc # ""
       THEN /\ exc' = create_simple_counter_plots(data).exc
            /\ pc' = "failed"
            /\ UNCHANGED fig_counters
       ELSE /\ fig_counters' = create_simple_counter_plots(data).value
            /\ pc' = "counters"
            /\ UNCHANGED exc
    /\ UNCHANGED <<loaderVars, data, shown, tableVars, syncVars, answer, figVars, tag_time, fig_tags,
                   pageVars, hmVars>>

\* A counter entity with no countOnDay, or with one day's count.
CounterEntities(name) ==
    {[id |-> CounterId(name), countOnDay |-> c] :
        c \in {Absent} \cup
              {MapOf(<<[day |-> Days[1], count |-> v]>>) :
                  v \in IF name = "water" THEN {1, 3} ELSE {3600000, 18000000}}}

\* The counter collections: no simpleCounter key, or any of the three counters.
RECURSIVE CounterSeqs(_)
CounterSeqs(n) ==
    IF n = 0 THEN {<<>>}
    ELSE {s \o t : s \in CounterSeqs(n - 1),
                   t \in {<<>>} \cup {<<e>> : e \in CounterEntities(CounterNames[n])}}

CounterCollections == {Absent} \cup {MapOf(s) : s \in CounterSeqs(Len(CounterNames))}

\* The three counters, one day each.
StockCounters ==
    MapOf([n \in 1..Len(CounterNames) |->
            [id |-> CounterId(CounterNames[n]),
             countOnDay |-> MapOf(<<[day |-> Days[1],
                                     count |-> IF n = 1 THEN 3 ELSE 3600000]>>)]])

(***************************************************************************)
(* The page                                                                *)
(***************************************************************************)
\* plot_objs: the tag pie and the counter plots.
plot_objs == {"tags_pie"} \cup DOMAIN fig_counters

\* plot_keys of the script: the six figures and extra_plot_keys.
ScriptPlotKeys ==
    <<"accumulated", "fig3", "fig4", "fig1", "fig2", "tags_pie", "water", "media", "workout">>

\* if 'plot_page' not in st.session_state: st.session_state['plot_page'] = 0
WithPlotPage(state) ==
    IF "plot_page" \in DOMAIN state THEN state ELSE DictSet(state, "plot_page", 0)

\* Variant: the page shows what was built when the cycle failed.
Render_WhatWasBuilt ==
    /\ pc \in {"counters", "failed"}
    /\ shown' = [error |-> "", plots |-> IF fig_tags = <<>> THEN {} ELSE plot_objs]
    /\ plot_keys' = ScriptPlotKeys
    /\ session_state' = WithPlotPage(session_state)
    /\ pc' = "rendered"
    /\ UNCHANGED <<loaderVars, data, tableVars, syncVars, answer, chartVars, exc, hmVars>>

\* The Streamlit part of the script: it comes after every plot was built.
Render ==
    /\ pc = "counters"
    /\ shown' = [error |-> "", plots |-> plot_objs]
    /\ plot_keys' = ScriptPlotKeys
    /\ session_state' = WithPlotPage(session_state)
    /\ pc' = "rendered"
    /\ UNCHANGED <<loaderVars, data, tableVars, syncVars, answer, chartVars, exc, hmVars>>

(***************************************************************************)
(* Page navigation                                                         *)
(*                                                                         *)
(* A click runs its callback and then the script again; the rerun rebuilds *)
(* the same tables and plots from the same file and is not repeated here.  *)
(***************************************************************************)
plots_per_page == 2

\* num_pages = 1 + math.ceil(len(plot_keys) / plots_per_page)
num_pages == 1 + ((Len(plot_keys) + plots_per_page - 1) \div plots_per_page)

page == session_state["plot_page"]

Max(a, b) == IF a >= b THEN a ELSE b
Min(a, b) == IF a <= b THEN a ELSE b

\* The previous-page button: disabled on page 0, else plot_page = max(0, page - 1).
PrevPage ==
    /\ pc = "rendered"
    /\ page # 0
    /\ session_state' = DictSet(session_state, "plot_page", Max(0, page - 1))
    /\ UNCHANGED <<loaderVars, data, tableVars, syncVars, answer, chartVars, shown,
                   plot_keys, hmVars, pc, exc>>

\* The next-page button: disabled on page num_pages - 1, else
\* plot_page = min(num_pages - 1, page + 1).
NextPage ==
    /\ pc = "rendered"
    /\ page # num_pages - 1
    /\ session_state' = DictSet(session_state, "plot_page", Min(num_pages - 1, page + 1))
    /\ UNCHANGED <<loaderVars, data, tableVars, syncVars, answer, chartVars, shown,
                   plot_keys, hmVars, pc, exc>>

\* plot_page_mapping of navigate_to_plot, as pairs of plot name and page.
plot_page_mapping ==
    <<<<"Calendar", 0>>,
      <<"Accumulated Work Time", 1>>, <<"Time Spent Per Day Per Project", 1>>,
      <<"Average Time Per Workday", 2>>, <<"All Time Spent Per Day", 2>>,
      <<"Time Spent Per Project", 3>>, <<"Time Spent Distribution by Tag", 3>>,
      <<"Daily Water Intake", 4>>, <<"Daily Media Watching", 4>>,
      <<"Daily Workout Time", 5>>, <<"Tag Usage Trends Over Time", 5>>,
      <<"Project Efficiency", 6>>, <<"Task Estimation Accuracy", 6>>>>

\* The names navigate_to_plot is called with: those of the mapping and one
\* that is not in it.
PlotNames == {plot_page_mapping[i][1] : i \in 1..Len(plot_page_mapping)} \cup {"No Such Plot"}

\* navigate_to_plot(plot_name): the page of the mapping, or st.error.
NavigateToPlot ==
    /\ pc = "rendered"
    /\ \E plot_name \in PlotNames :
         IF \E i \in 1..Len(plot_page_mapping) : plot_page_mapping[i][1] = plot_name
         THEN LET target_page ==
                    plot_page_mapping[CHOOSE i \in 1..Len(plot_page_mapping) :
                                         plot_page_mapping[i][1] = plot_name][2]
              IN /\ session_state' = DictSet(session_state, "plot_page", target_page)
                 /\ UNCHANGED shown
         ELSE /\ shown' = [shown EXCEPT !.error = "Plot '" \o plot_name \o "' not found."]
              /\ UNCHANGED session_state
    /\ UNCHANGED <<loaderVars, data, tableVars, syncVars, answer, chartVars,
                   plot_keys, hmVars, pc, exc>>

\* The keys get_plot_display_name knows, in the order of the script's list.
KnownPlotKeys ==
    ScriptPlotKeys \o <<"tag_trends", "project_efficiency", "estimation_accuracy">>

\* A rendered page 0 over any number of plot keys; the tables and plots play
\* no part in the navigation.
InitPages ==
    /\ \E n \in 0..Len(KnownPlotKeys) : plot_keys = SubSeq(KnownPlotKeys, 1, n)
    /\ session_state = WithPlotPage(<<>>)
    /\ shown = NoPage
    /\ data = NoData
    /\ Loaded
    /\ NoTables
    /\ project_colors = <<>> /\ project_icons = <<>>
    /\ tag_colors = <<>> /\ tag_icons = <<>>
    /\ answer = <<>>
    /\ df_time_per_day = <<>> /\ time_per_project = <<>> /\ df_avg_workday_proj = <<>>
    /\ tag_time = <<>> /\ fig_tags = <<>> /\ fig_counters = <<>>
    /\ total_minutes = 0 /\ hm_str = ""
    /\ pc = "rendered"
    /\ exc = ""

\* minutes_to_hm_str on its own: any whole, non-negative number of minutes.
InitHm ==
    /\ total_minutes \in 0..MaxMinutes
    /\ hm_str = ""
    /\ session_state = <<>> /\ plot_keys = <<>>
    /\ shown = NoPage
    /\ data = NoData
    /\ Loaded
    /\ NoTables
    /\ project_colors = <<>> /\ project_icons = <<>>
    /\ tag_colors = <<>> /\ tag_icons = <<>>
    /\ answer = <<>>
    /\ df_time_per_day = <<>> /\ time_per_project = <<>> /\ df_avg_workday_proj = <<>>
    /\ tag_time = <<>> /\ fig_tags = <<>> /\ fig_counters = <<>>
    /\ pc = "start"
    /\ exc = ""

SpecHm == InitHm /\ [][MinutesToHmStr]_vars

NextPages == PrevPage \/ NextPage \/ NavigateToPlot

SpecPages == InitPages /\ [][NextPages]_vars

(***************************************************************************)
(* The render cycle                                                        *)
(***************************************************************************)
\* A cycle starts with a backup on disk that holds the snapshot, or with a
\* disk on which the load fails.
Init ==
    /\ \/ /\ \E n \in 0..MaxTasks, ps \in ProjectEntitySeqs :
               \E ts \in DayTaskSeqs(n) :
                  data = [task |-> ts, project |-> ps, tag |-> NoTags,
                          simpleCounter |-> StockCounters]
          /\ OnDisk(StockFile)
       \/ /\ data = NoData
          /\ \E f \in FailingFiles : OnDisk(f)
    /\ NoTables
    /\ NoSync
    /\ pc = "start"
    /\ exc = ""

\* Variant: the defaults of notes and tagIds are written into the entities
\* (setdefault in place of get).
NormalizeTasks_SetDefault ==
    /\ pc = "synced"
    /\ IF normalize_tasks(data).exc # ""
       THEN /\ exc' = normalize_tasks(data).exc
            /\ pc' = "failed"
            /\ UNCHANGED <<df_tasks, data>>
       ELSE /\ df_tasks' = normalize_tasks(data).value
            /\ data' = [data EXCEPT !.task =
                          [i \in 1..Len(data.task) |->
                              [data.task[i] EXCEPT !.notes = GetOr(@, StrOf("")),
                                                   !.tagIds = GetOr(@, ListOf(<<>>))]]]
            /\ pc' = "tasks"
            /\ UNCHANGED exc
    /\ UNCHANGED <<loaderVars, shown, df_projects, df_all_time, syncVars, answer, chartVars,
                   pageVars, hmVars>>

\* task['title'] and the other subscripts raise KeyError on a missing key.
NormalizeTasks ==
    /\ pc = "synced"
    /\ IF normalize_tasks(data).exc # ""
       THEN /\ exc' = normalize_tasks(data).exc
            /\ pc' = "failed"
            /\ UNCHANGED df_tasks
       ELSE /\ df_tasks' = normalize_tasks(data).value
            /\ pc' = "tasks"
            /\ UNCHANGED exc
    /\ UNCHANGED <<loaderVars, data, shown, df_projects, df_all_time, syncVars, answer, chartVars,
                   pageVars, hmVars>>

\* proj['title'] raises KeyError when an entity has no title.
NormalizeProjects ==
    /\ pc = "tasks"
    /\ IF \E i \in 1..Len(data.project) : data.project[i].title.k = "absent"
       THEN /\ exc' = "KeyError"
            /\ pc' = "failed"
            /\ UNCHANGED df_projects
       ELSE /\ df_projects' = normalize_projects(data)
            /\ pc' = "projects"
            /\ UNCHANGED exc
    /\ UNCHANGED <<loaderVars, data, shown, df_tasks, df_all_time, syncVars, answer, chartVars,
                   pageVars, hmVars>>

\* An empty list of rows makes a DataFrame without columns: merging on
\* 'projectId' / 'id' then raises KeyError.
Merge ==
    /\ pc = "projects"
    /\ IF df_tasks = <<>> \/ df_projects = <<>>
       THEN /\ exc' = "KeyError"
            /\ pc' = "failed"
            /\ UNCHANGED df_tasks
       ELSE /\ df_tasks' = merge(df_tasks, df_projects)
            /\ pc' = "joined"
            /\ UNCHANGED exc
    /\ UNCHANGED <<loaderVars, data, shown, df_projects, df_all_time, syncVars, answer, chartVars,
                   pageVars, hmVars>>

BuildTimeByDay ==
    /\ pc = "joined"
    /\ df_all_time' = build_time_by_day(df_tasks, data)
    /\ pc' = "aggregated"
    /\ UNCHANGED <<loaderVars, data, shown, df_tasks, df_projects, syncVars, answer, chartVars, exc,
                   pageVars, hmVars>>

TagIdValues ==
    {Absent, ListOf(<<>>), ListOf(<<TagIds[1]>>), ListOf(<<TagIds[2]>>),
     ListOf(<<TagIds[1], TagIds[2]>>), ListOf(<<TagIdOrder[3]>>)}

\* Task entities of the tag snapshots: 0, 60 or 90 minutes on one day, all of
\* project p1.
TagTaskEntities(i) ==
    {[id |-> i, projectId |-> ProjectIds[1], subTaskIds |-> Absent,
      timeSpentOnDay |-> MapOf(<<[day |-> Days[1], ms |-> ms]>>),
      timeSpent |-> ms, tagIds |-> tg] @@ PlainTask :
        ms \in {0, 3600000, 5400000}, tg \in TagIdValues}

\* The tag collections: no 'tag' key, no entity, one or two tags (titles may collide).
TagCollections ==
    {NoTags, MapOf(<<>>)} \cup
    {MapOf(<<PlainEntity(TagIds[1], t)>>) : t \in TagTitles} \cup
    {MapOf(<<PlainEntity(TagIds[1], t), PlainEntity(TagIds[2], u)>>) :
        t \in TagTitles, u \in TagTitles}

RECURSIVE TagTaskSeqs(_)
TagTaskSeqs(n) ==
    IF n = 0 THEN {<<>>}
    ELSE {Append(s, e) : s \in TagTaskSeqs(n - 1), e \in TagTaskEntities(n)}

InitTags ==
    /\ \E n \in 0..MaxTasks, tg \in TagCollections :
         \E ts \in TagTaskSeqs(n) :
            data = [task |-> ts, project |-> <<PlainEntity(ProjectIds[1], "Work")>>,
                    tag |-> tg, simpleCounter |-> StockCounters]
    /\ OnDisk(StockFile)
    /\ NoTables
    /\ NoSync
    /\ pc = "start"
    /\ exc = ""

\* The snapshots of the counter plots: one task with time, one project, and
\* every counter collection.
InitCounters ==
    /\ \E c \in CounterCollections, e \in TagTaskEntities(1) :
         /\ e.timeSpent > 0
         /\ data = [task |-> <<e>>, project |-> <<PlainEntity(ProjectIds[1], "Work")>>,
                    tag |-> NoTags, simpleCounter |-> c]
    /\ OnDisk(StockFile)
    /\ NoTables
    /\ NoSync
    /\ pc = "start"
    /\ exc = ""

\* Day maps of the figure snapshots: two Mondays and a Tuesday, entries not
\* always in the order of the dates.
FigureDayMaps ==
    {Absent,
     MapOf(<<[day |-> Days[1], ms |-> 7200000]>>),
     MapOf(<<[day |-> NextMonday, ms |-> 3600000]>>),
     MapOf(<<[day |-> Days[2], ms |-> 3600000]>>),
     MapOf(<<[day |-> NextMonday, ms |-> 14400000], [day |-> Days[1], ms |-> 7200000]>>)}

\* Leaf task entities of the figure snapshots.
FigureTaskEntities(i) ==
    {[id |-> i, projectId |-> p, subTaskIds |-> Absent, timeSpentOnDay |-> d,
      timeSpent |-> SumMs(GetOr(d, MapOf(<<>>)).v), tagIds |-> Absent] @@ PlainTask :
        p \in {ProjectIds[1], ProjectIds[2]}, d \in FigureDayMaps}

RECURSIVE FigureTaskSeqs(_)
FigureTaskSeqs(n) ==
    IF n = 0 THEN {<<>>}
    ELSE {Append(s, e) : s \in FigureTaskSeqs(n - 1), e \in FigureTaskEntities(n)}

InitFigures ==
    /\ \E n \in 0..MaxTasks, ps \in ProjectEntitySeqs :
         \E ts \in FigureTaskSeqs(n) :
            data = [task |-> ts, project |-> ps, tag |-> NoTags,
                    simpleCounter |-> StockCounters]
    /\ OnDisk(StockFile)
    /\ NoTables
    /\ NoSync
    /\ pc = "start"
    /\ exc = ""

Next ==
    \/ LoadData \/ CreateColorSync \/ NormalizeTasks \/ NormalizeProjects \/ Merge
    \/ BuildTimeByDay \/ CreateFigures \/ CreateTagsPieChart
    \/ CreateSimpleCounterPlots \/ Render

SpecFigures == InitFigures /\ [][Next]_vars

Spec == Init /\ [][Next]_vars

SpecCounters == InitCounters /\ [][Next]_vars

(***************************************************************************)
(* normalize_tasks on task entities of every shape                         *)
(***************************************************************************)
\* The optional fields that go together: none of them, or all of them.
OptionalFields ==
    {[tagIds |-> Absent, notes |-> Absent, timeSpent |-> 60000],
     [tagIds |-> ListOf(<<"t1">>), notes |-> StrOf("n"), timeSpent |-> 5400000]}

\* A task entity that has every subscripted key, with subTaskIds absent, null,
\* empty or not; timeEstimate null, 0 or 30 minutes; doneOn absent, null or set.
WholeTaskEntities(i) ==
    {[id |-> i, projectId |-> ProjectIds[1], subTaskIds |-> s, timeSpentOnDay |-> Absent,
      timeSpent |-> o.timeSpent, tagIds |-> o.tagIds, lacks |-> {},
      timeEstimate |-> te, doneOn |-> dn, notes |-> o.notes] :
        s \in SubTaskIdValues \cup {Null},
        te \in {Null, NumOf(0), NumOf(1800000)},
        dn \in {Absent, Null, NumOf(86400000)},
        o \in OptionalFields}

\* A task entity that lacks one of the subscripted keys.
LackingTaskEntities(i) ==
    {[id |-> i, projectId |-> ProjectIds[1], subTaskIds |-> Absent,
      timeSpentOnDay |-> Absent, timeSpent |-> 60000, tagIds |-> Absent,
      lacks |-> {SubscriptedKeys[n]},
      timeEstimate |-> Null, doneOn |-> Absent, notes |-> Absent] :
        n \in 1..Len(SubscriptedKeys)}

RECURSIVE AnyTaskSeqs(_)
AnyTaskSeqs(n) ==
    IF n = 0 THEN {<<>>}
    ELSE {Append(s, e) : s \in AnyTaskSeqs(n - 1),
                         e \in WholeTaskEntities(n) \cup LackingTaskEntities(n)}

InitNormalize ==
    /\ \E n \in 0..MaxTasks : \E ts \in AnyTaskSeqs(n) :
         data = [task |-> ts, project |-> <<PlainEntity(ProjectIds[1], "Work")>>,
                 tag |-> NoTags, simpleCounter |-> StockCounters]
    /\ Loaded
    /\ NoTables
    /\ NoSync
    /\ pc = "loaded"
    /\ exc = ""

NextNormalize == CreateColorSync \/ NormalizeTasks

SpecNormalize == InitNormalize /\ [][NextNormalize]_vars

SpecTags == InitTags /\ [][Next]_vars

(***************************************************************************)
(* Properties of the day table                                             *)
(***************************************************************************)
SeqToSet(s) == {s[i] : i \in 1..Len(s)}

RECURSIVE SumOver(_, _)
\* The sum of f[x] over the finite set S.
SumOver(f, S) ==
    IF S = {} THEN 0
    ELSE LET x == CHOOSE y \in S : TRUE IN f[x] + SumOver(f, S \ {x})

\* A task with no subtask ids.
HasNoSubTasks(e) == e.subTaskIds.k = "absent" \/ e.subTaskIds.v = <<>>

\* The recorded minutes of a task entity on the days of date dt (all days when dt = 0).
RecordedMinutes(e, dt) ==
    LET items == e.timeSpentOnDay.v
        idx == {i \in 1..Len(items) : dt = 0 \/ ToDatetime(items[i].day) = dt}
    IN SumOver([i \in idx |-> items[i].ms \div 60000], idx)

TaskIndices == 1..Len(data.task)
LeafIndices == {i \in TaskIndices : HasNoSubTasks(data.task[i])}

TableMinutes == SumOver([i \in 1..Len(df_all_time) |-> df_all_time[i].minutes],
                        1..Len(df_all_time))

\* The titles of the project entities with the given id.
TitlesOfProject(pid) == {p.title.v : p \in {q \in SeqToSet(data.project) : q.id = pid}}

\* C1: once the day table is built, its minutes add up to the minutes recorded
\* in timeSpentOnDay by all the leaf tasks of the snapshot.
C1_TotalIsLeafTotal ==
    pc = "aggregated" =>
        TableMinutes = SumOver([i \in LeafIndices |-> RecordedMinutes(data.task[i], 0)],
                               LeafIndices)

\* The leaf tasks whose project has title t.
LeavesOfTitle(t) ==
    {i \in LeafIndices : t \in TitlesOfProject(data.task[i].projectId)}

\* C2: every (date, project) total of the day table is the sum of the minutes
\* recorded on that date by the leaf tasks of that project; a parent task, which
\* lists subtask ids, adds nothing of its own.
C2_LeafOnly ==
    pc = "aggregated" =>
        /\ \A r \in SeqToSet(df_all_time) :
              r.minutes = SumOver([i \in LeavesOfTitle(r.project) |->
                                      RecordedMinutes(data.task[i], r.date)],
                                  LeavesOfTitle(r.project))
        /\ \A i \in LeafIndices, t \in ProjectTitles :
              i \in LeavesOfTitle(t) =>
                 \A k \in 1..Len(data.task[i].timeSpentOnDay.v) :
                    \E r \in SeqToSet(df_all_time) :
                       /\ r.project = t
                       /\ r.date = ToDatetime(data.task[i].timeSpentOnDay.v[k].day)

\* A parent and a child of one project, both with recorded time on the same day,
\* and the day table has the row of that day and project.
C2_Witness ==
    /\ pc = "aggregated"
    /\ \E i \in TaskIndices, j \in TaskIndices, r \in SeqToSet(df_all_time) :
          /\ ~HasNoSubTasks(data.task[i])
          /\ HasNoSubTasks(data.task[j])
          /\ data.task[i].projectId = data.task[j].projectId
          /\ r.project \in TitlesOfProject(data.task[j].projectId)
          /\ RecordedMinutes(data.task[i], r.date) > 0
          /\ RecordedMinutes(data.task[j], r.date) > 0

\* C8: every row of the joined task table carries the title of the project
\* entity whose id the task references.
C8_JoinedTitle ==
    pc \in {"joined", "aggregated"} =>
        \A r \in SeqToSet(df_tasks) :
            /\ TitlesOfProject(TaskEntity(data, r.id).projectId) # {}
            /\ \A p \in SeqToSet(data.project) :
                  p.id = TaskEntity(data, r.id).projectId => r.title_project = p.title.v

\* Two joined rows of two projects with different titles.
C8_Witness ==
    /\ pc = "joined"
    /\ \E r \in SeqToSet(df_tasks), q \in SeqToSet(df_tasks) :
          r.projectId # q.projectId /\ r.title_project # q.title_project

(***************************************************************************)
(* Properties of the colour/icon lookup                                    *)
(***************************************************************************)
\* The key an entity is stored under: its title, '' when it has none.
KeyOf(e) == GetOr(e.title, StrOf("")).v

ProjectKeys == {KeyOf(e) : e \in SeqToSet(data.project)}
TagKeys == {KeyOf(e) : e \in SeqToSet(TagEntities(data))}

\* C5: a colour getter asked for a name that is the title of no project (resp.
\* tag) of the data answers the default colour '#636efa'.
C5_UnknownTitleDefault ==
    /\ (pc = "synced" /\ answer # <<>> /\ answer.fn = "get_project_color"
          /\ answer.name \notin ProjectKeys) => answer.value = DefaultColor
    /\ (pc = "synced" /\ answer # <<>> /\ answer.fn = "get_tag_color"
          /\ answer.name \notin TagKeys) => answer.value = DefaultColor

\* get_project_color has answered for an unknown title while the lookup holds a
\* themed project.
C5_Witness ==
    /\ pc = "synced"
    /\ answer # <<>>
    /\ answer.fn = "get_project_color"
    /\ answer.name = "unknown-title"
    /\ answer.value = DefaultColor
    /\ \E t \in DOMAIN project_colors : project_colors[t] # DefaultColor

\* The entities of a collection that have a title and share it with no other
\* entity.
UniqueKeyed(entities) ==
    {i \in 1..Len(entities) :
        /\ entities[i].title.k # "absent"
        /\ \A j \in 1..Len(entities) : KeyOf(entities[j]) = KeyOf(entities[i]) => j = i}

\* C6: the icon getters answer the icon field of an entity that has one and the
\* default glyph for an entity without; a project 'Work' without icon is
\* displayed as the folder glyph, a space and 'Work'.
C6_IconOrDefaultGlyph ==
    pc = "synced" =>
        /\ \A i \in UniqueKeyed(data.project) :
              LET e == data.project[i] IN
              /\ e.icon.k # "absent" => get_project_icon(KeyOf(e)) = e.icon
              /\ e.icon.k = "absent" =>
                    /\ get_project_icon(KeyOf(e)) = StrOf(DefaultProjectIcon)
                    /\ get_project_display_name(KeyOf(e)) = DefaultProjectIcon \o " " \o KeyOf(e)
        /\ \A i \in UniqueKeyed(TagEntities(data)) :
              LET e == TagEntities(data)[i] IN
              /\ e.icon.k # "absent" => get_tag_icon(KeyOf(e)) = e.icon
              /\ e.icon.k = "absent" => get_tag_icon(KeyOf(e)) = StrOf(DefaultTagIcon)

\* The theme is a mapping whose primary is a non-empty string starting with '#'.
WellFormedPrimary(e) ==
    /\ e.theme.k = "map"
    /\ e.theme.v.primary.k = "str"
    /\ Len(e.theme.v.primary.v) > 0
    /\ e.theme.v.primary.v[1] = "#"

ExpectedColor(e) == IF WellFormedPrimary(e) THEN e.theme.v.primary.v ELSE DefaultColor

\* C7: building the lookup never fails, and the colour of every entity is the
\* primary of its theme when that is well formed and the default otherwise.
C7_PrimaryOrDefault ==
    /\ exc # "AttributeError"
    /\ pc = "synced" =>
          /\ \A i \in UniqueKeyed(data.project) :
                get_project_color(KeyOf(data.project[i])) = ExpectedColor(data.project[i])
          /\ \A i \in UniqueKeyed(TagEntities(data)) :
                get_tag_color(KeyOf(TagEntities(data)[i])) = ExpectedColor(TagEntities(data)[i])

(***************************************************************************)
(* Properties of the tag aggregation                                       *)
(***************************************************************************)
\* The rows of the task table with time, and those of them carrying a tag id.
TimedRows == {i \in 1..Len(df_tasks) : df_tasks[i].timeSpent > 0}
Carrying(id) == {i \in TimedRows : id \in SeqToSet(df_tasks[i].tagIds)}
CarriedIds == UNION {SeqToSet(df_tasks[i].tagIds) : i \in TimedRows}

TimeOfRows(S) == SumOver([i \in S |-> df_tasks[i].timeSpent], S)

\* C3: the total of a tag is the sum of the full timeSpent of every task that
\* carries it, so a task with N tags is counted N times over all the tags.
C3_FullTimePerTag ==
    pc = "charted" =>
        /\ \A id \in CarriedIds :
              \E k \in 1..Len(tag_time) :
                 /\ tag_time[k].tagIds = id
                 /\ tag_time[k].timeSpent = TimeOfRows(Carrying(id))
                 /\ \A m \in 1..Len(tag_time) : tag_time[m].tagIds = id => m = k
        /\ \A k \in 1..Len(tag_time) : tag_time[k].tagIds \in CarriedIds
        /\ SumOver([k \in 1..Len(tag_time) |-> tag_time[k].timeSpent], 1..Len(tag_time))
              = SumOver([i \in TimedRows |-> Len(df_tasks[i].tagIds) * df_tasks[i].timeSpent],
                        TimedRows)

\* One task of 60 minutes with two tags: 60 for each tag, 120 over the tags.
C3_Witness ==
    /\ pc = "charted"
    /\ Len(df_tasks) = 1
    /\ df_tasks[1].timeSpent = 60
    /\ df_tasks[1].tagIds = <<TagIds[1], TagIds[2]>>
    /\ tag_time = <<[tagIds |-> TagIds[1], timeSpent |-> 60],
                    [tagIds |-> TagIds[2], timeSpent |-> 60]>>

UntaggedRows == {i \in TimedRows : df_tasks[i].tagIds = <<>>}

\* The indices of the slices labelled 'Untagged'.
UntaggedSlices == {i \in 1..Len(fig_tags.labels) : fig_tags.labels[i] = "Untagged"}

\* C4: the tasks with time and without tags make up the 'Untagged' slice, whose
\* value is the sum of their timeSpent, and they count in the total of no tag.
C4_UntaggedBucket ==
    pc = "charted" =>
        /\ UntaggedRows # {} => UntaggedSlices # {}
        /\ \A i \in UntaggedSlices :
              /\ i = Len(fig_tags.labels)
              /\ fig_tags.values[i] = TimeOfRows(UntaggedRows)
        /\ \A k \in 1..Len(tag_time) :
              tag_time[k].timeSpent = TimeOfRows(Carrying(tag_time[k].tagIds) \ UntaggedRows)
        /\ \A i \in 1..Len(fig_tags.values) :
              i \notin UntaggedSlices =>
                 \/ fig_tags.values[i] = 0
                 \/ \E k \in 1..Len(tag_time) : fig_tags.values[i] = tag_time[k].timeSpent

\* A tagged and an untagged task with time, a named slice and the 'Untagged'
\* slice.
C4_Witness ==
    /\ pc = "charted"
    /\ UntaggedRows # {}
    /\ TimedRows \ UntaggedRows # {}
    /\ Len(fig_tags.labels) > 1
    /\ fig_tags.labels[Len(fig_tags.labels)] = "Untagged"
    /\ fig_tags.values[Len(fig_tags.values)] = TimeOfRows(UntaggedRows)
    /\ fig_tags.values[1] > 0

(***************************************************************************)
(* Properties of the loader                                                *)
(***************************************************************************)
\* The files that lie in an existing search location and match its glob.
MatchingFiles ==
    {i \in 1..MaxFiles : LocationOf(i) \in dirs /\ files[i].st \in {"stale", "ok"}}

\* Those of them whose modification time can be read.
ReadableFiles == {i \in MatchingFiles : files[i].st = "ok"}

\* C9 as stated: load_data raises FileNotFoundError exactly when no existing
\* search location contains a file matching its glob.
C9_NotFoundIffNoMatch ==
    result.st # "none" =>
        ((result.st = "raised" /\ result.exc = "FileNotFoundError") <=> MatchingFiles = {})

\* C9 amended: load_data raises FileNotFoundError exactly when no existing
\* search location contains a matching file whose modification time can be
\* read; it then neither returns data nor raises the invalid-format error.
C9_NotFoundIffNoReadableMatch ==
    result.st # "none" =>
        /\ (result.st = "raised" /\ result.exc = "FileNotFoundError") <=> ReadableFiles = {}
        /\ ReadableFiles = {} => result.st # "returned" /\ result.exc # "ValueError"

\* load_data has raised FileNotFoundError on a disk that holds a backup-like
\* file of another name and a matching file without readable mtime.
C9_Witness ==
    /\ result.st = "raised"
    /\ result.exc = "FileNotFoundError"
    /\ \E i \in 1..MaxFiles : files[i].st = "other"
    /\ \E i \in 1..MaxFiles : files[i].st = "stale"

\* The file load_data reads: a readable match of the latest mtime.
LatestFiles == {i \in ReadableFiles : \A j \in ReadableFiles : files[j].mtime <= files[i].mtime}

\* The value has task and project at the top level or under a data key.
HasCollections(v) ==
    /\ v.k = "obj"
    /\ \/ expected_entities \subseteq v.has
       \/ "data" \in v.has /\ v.data.k = "obj" /\ expected_entities \subseteq v.data.has

\* C10: when the most recent file is not parseable as JSON, or is a JSON value
\* without the task and project collections, load_data raises ValueError and
\* nothing else.
C10_InvalidIsValueError ==
    (result.st # "none" /\ ReadableFiles # {}
        /\ \A i \in LatestFiles : ~HasCollections(files[i].content)) =>
            result.st = "raised" /\ IsInstance(result.exc, "ValueError")

(***************************************************************************)
(* The loader: selection, result shape, error conditions, metadata query   *)
(***************************************************************************)
\* C11: every file load_data opens matches the glob of an existing search
\* location and no matching file of any existing location has a later
\* modification time; when some matching file has a modification time, one
\* is opened.
C11_ParsesLatestOfUnion ==
    result.st # "none" =>
        /\ ReadableFiles # {} => opened # <<>>
        /\ \A n \in 1..Len(opened) :
              /\ opened[n] \in MatchingFiles
              /\ \A j \in MatchingFiles :
                    files[j].st = "ok" => files[j].mtime <= files[opened[n]].mtime

\* load_data has opened a file of a later search location that is newer than
\* a matching file of the first location.
C11_Witness ==
    /\ result.st # "none"
    /\ opened # <<>>
    /\ LocationOf(opened[1]) > 1
    /\ \E j \in ReadableFiles :
          LocationOf(j) = 1 /\ files[j].mtime < files[opened[1]].mtime

\* C12: whenever load_data returns, the result is an object whose 'data' is
\* an object that contains both 'task' and 'project'.
C12_CanonicalWrapped ==
    result.st = "returned" =>
        /\ result.value.k = "obj"
        /\ "data" \in result.value.has
        /\ result.value.data.k = "obj"
        /\ expected_entities \subseteq result.value.data.has

\* The failure category of a file content: (c) not valid JSON or unreadable,
\* (b) JSON without the required collections, or none.
CategoryOf(c) ==
    IF c.k \in {"unreadable", "undecodable", "notjson"} THEN "c"
    ELSE IF HasCollections(c) THEN "none" ELSE "b"

\* The error condition the caller sees.
Condition(r) == <<r.st, r.exc, r.msg>>

\* C13: the not-found error is raised for no candidate only, and the error
\* raised for the selected file differs from the error load_data raises when
\* that file's content is replaced by one of the other failure category.
C13_DistinctErrors ==
    result.st = "raised" =>
        /\ (result.exc = "FileNotFoundError") <=> (opened = <<>>)
        /\ opened # <<>> =>
              \A c2 \in Contents :
                  LET other == load_data(dirs, [files EXCEPT ![opened[1]].content = c2])
                  IN (/\ CategoryOf(c2) \in {"b", "c"}
                      /\ CategoryOf(files[opened[1]].content) \in {"b", "c"}
                      /\ CategoryOf(c2) # CategoryOf(files[opened[1]].content))
                         => Condition(other) # Condition(result)

\* C18: get_most_recent_file_info opens no file; it returns None exactly when
\* load_data on the same file system raises the not-found error, and otherwise
\* the path and the modification time of the file load_data opens.
C18_InfoIsLoadSelection ==
    /\ (info.st # "none" /\ result.st = "none") => opened = <<>>
    /\ (info.st # "none" /\ result.st # "none") =>
          /\ info.st \in {"None", "info"}
          /\ (info.st = "None") <=>
                (result.st = "raised" /\ result.exc = "FileNotFoundError")
          /\ info.st = "info" =>
                /\ opened # <<>>
                /\ \A n \in 1..Len(opened) : opened[n] = info.path
                /\ info.mtime = files[info.path].mtime

\* Both operations have run on a disk with two candidates of different
\* modification times, the later one found second.
C18_Witness ==
    /\ info.st = "info"
    /\ result.st # "none"
    /\ \E j \in ReadableFiles : j < info.path /\ files[j].mtime < info.mtime

(***************************************************************************)
(* normalize_tasks                                                         *)
(***************************************************************************)
\* The four keys the task normalisation is said to require.
RequiredKeys == {"id", "title", "timeSpent", "projectId"}

Normalized == pc \in {"tasks", "failed"}

\* C14: when every task entity has id, title, timeSpent and projectId,
\* normalize_tasks succeeds, and a task without timeEstimate has the
\* estimate None.
C14_FailsOnlyOnRequiredKeys ==
    (Normalized /\ \A i \in 1..Len(data.task) : data.task[i].lacks \cap RequiredKeys = {}) =>
        /\ pc = "tasks"
        /\ \A i \in 1..Len(data.task) :
              "timeEstimate" \in data.task[i].lacks => df_tasks[i].timeEstimate = Null

\* What every row takes from its entity whatever the estimate: the row count,
\* the minutes spent and the defaults of doneOn, notes and tagIds.
RowOfTask(i) ==
    /\ df_tasks[i].id = data.task[i].id
    /\ df_tasks[i].timeSpent * 60000 = data.task[i].timeSpent
    /\ data.task[i].timeEstimate.k = "null" => df_tasks[i].timeEstimate = Null
    /\ data.task[i].doneOn.k = "absent" => df_tasks[i].doneOn = Null
    /\ data.task[i].notes.k = "absent" => df_tasks[i].notes = StrOf("")
    /\ data.task[i].tagIds.k = "absent" => df_tasks[i].tagIds = <<>>

\* C15 as stated: one row per task entity, with timeSpent = ms / 60000,
\* timeEstimate = ms / 60000 for every estimate that is a number and None for
\* null, doneOn None when absent, notes '' and tagIds empty when missing.
C15_RowPerTask ==
    pc = "tasks" =>
        /\ Len(df_tasks) = Len(data.task)
        /\ \A i \in 1..Len(data.task) :
              /\ RowOfTask(i)
              /\ data.task[i].timeEstimate.k = "num" =>
                    /\ df_tasks[i].timeEstimate.k = "num"
                    /\ df_tasks[i].timeEstimate.v * 60000 = data.task[i].timeEstimate.v

\* C15 amended: as above, but the estimate is ms / 60000 for a number other
\* than 0 and None for null and for 0.
C15_RowPerTaskNonZeroEstimate ==
    pc = "tasks" =>
        /\ Len(df_tasks) = Len(data.task)
        /\ \A i \in 1..Len(data.task) :
              /\ RowOfTask(i)
              /\ (data.task[i].timeEstimate.k = "num" /\ data.task[i].timeEstimate.v # 0) =>
                    /\ df_tasks[i].timeEstimate.k = "num"
                    /\ df_tasks[i].timeEstimate.v * 60000 = data.task[i].timeEstimate.v
              /\ data.task[i].timeEstimate = NumOf(0) => df_tasks[i].timeEstimate = Null

\* Two tasks were normalised: one with an estimate of 0 and no notes, tagIds
\* or doneOn, the other with an estimate of 30 minutes.
C15_Witness ==
    /\ pc = "tasks"
    /\ \E i, j \in 1..Len(data.task) :
          /\ data.task[i].timeEstimate = NumOf(0)
          /\ data.task[i].notes = Absent /\ data.task[i].tagIds = Absent
          /\ data.task[i].doneOn = Absent
          /\ data.task[j].timeEstimate = NumOf(1800000)
          /\ df_tasks[j].timeEstimate = NumOf(30)

\* C16: is_leaf is true exactly for the tasks whose subTaskIds is absent, null
\* or an empty list.
C16_LeafIffNoSubTasks ==
    pc = "tasks" =>
        \A i \in 1..Len(data.task) :
            df_tasks[i].is_leaf <=>
                \/ data.task[i].subTaskIds.k \in {"absent", "null"}
                \/ data.task[i].subTaskIds = ListOf(<<>>)

\* A task with null subTaskIds, one with an empty list and one with a subtask
\* id were normalised.
C16_Witness ==
    /\ pc = "tasks"
    /\ \E i, j \in 1..Len(data.task) :
          /\ data.task[i].subTaskIds \in {Null, ListOf(<<>>)} /\ df_tasks[i].is_leaf
          /\ data.task[j].subTaskIds = ListOf(<<"sub">>) /\ ~df_tasks[j].is_leaf

(***************************************************************************)
(* The counter plots and the page                                          *)
(***************************************************************************)
\* C17: when the snapshot has counters but lacks one of the three hardcoded
\* identifiers, the plots of the counters that are there are built and the
\* render goes on.
C17_OnlyMissingCounterFails ==
    (/\ fig_tags # <<>>
     /\ pc \in {"counters", "rendered", "failed"}
     /\ data.simpleCounter.k # "absent") =>
        /\ pc # "failed"
        /\ \A n \in 1..Len(CounterNames) :
              HasCounter(data, CounterNames[n]) => CounterNames[n] \in DOMAIN fig_counters

\* The plots of a complete cycle.
AllPlots == {"tags_pie", "water", "media", "workout"}

\* C19: a load that raised leaves every table and every plot unbuilt and the
\* page with the error alone; the page shows plots only once the whole cycle
\* went through, and then all of them; a cycle that failed shows none.
C19_NoPartialSuccess ==
    /\ (result.st = "raised" /\ pc # "start") =>
          /\ pc = "failed"
          /\ NoTables
          /\ project_colors = <<>> /\ tag_colors = <<>>
          /\ tag_time = <<>> /\ fig_tags = <<>> /\ fig_counters = <<>>
          /\ shown = ErrorPage(exc) /\ exc # ""
    /\ shown.plots # {} =>
          /\ pc = "rendered"
          /\ result.st = "returned"
          /\ fig_tags # <<>>
          /\ shown.plots = AllPlots
    /\ pc = "failed" => shown.plots = {}
    /\ pc = "rendered" => shown.plots = AllPlots

\* A load raised and the cycle stopped there.
C19_Witness ==
    /\ result.st = "raised"
    /\ pc = "failed"
    /\ shown.error # ""
    /\ df_tasks = <<>>

(***************************************************************************)
(* Order independence of the day table                                     *)
(***************************************************************************)
Bijections(n) == {p \in [1..n -> 1..n] : \A i, j \in 1..n : p[i] = p[j] => i = j}

\* The orders a sequence can be put in.
Orders(s) == {[i \in 1..Len(s) |-> s[p[i]]] : p \in Bijections(Len(s))}

\* The entity with the entries of its timeSpentOnDay map in any order.
DayPermutations(e) ==
    IF e.timeSpentOnDay.k = "map"
    THEN {[e EXCEPT !.timeSpentOnDay.v = q] : q \in Orders(e.timeSpentOnDay.v)}
    ELSE {e}

RECURSIVE EntityPermutations(_)
EntityPermutations(es) ==
    IF es = <<>> THEN {<<>>}
    ELSE {<<e>> \o t : e \in DayPermutations(Head(es)), t \in EntityPermutations(Tail(es))}

Triples(rows) == {rows[i] : i \in 1..Len(rows)}

FiguresBuilt == df_time_per_day # <<>>

\* The minutes of the day-table rows with the given indices.
MinutesOfRows(I) == SumOver([i \in 1..Len(df_all_time) |-> df_all_time[i].minutes], I)

\* C21: the per-project pie has one entry for every row of the project table,
\* in its order; the entry of a project is the sum of the minutes of the day
\* table under its title (0 when there is none); with unique titles the
\* entries add up to the total of the day table.
C21_PiePerProject ==
    FiguresBuilt =>
        /\ Len(time_per_project) = Len(df_projects)
        /\ \A i \in 1..Len(df_projects) :
              /\ time_per_project[i].title = df_projects[i].title
              /\ time_per_project[i].minutes =
                    MinutesOfRows({j \in 1..Len(df_all_time) :
                                      df_all_time[j].project = df_projects[i].title})
        /\ (\A i, j \in 1..Len(df_projects) :
                df_projects[i].title = df_projects[j].title => i = j) =>
              SumOver([i \in 1..Len(time_per_project) |-> time_per_project[i].minutes],
                      1..Len(time_per_project)) = TableMinutes

\* Two projects of different titles: one has rows on two dates of the day
\* table, the other none, and its entry is 0.
C21_Witness ==
    /\ FiguresBuilt
    /\ Len(df_projects) = 2
    /\ df_projects[1].title # df_projects[2].title
    /\ \E i, j \in 1..Len(time_per_project) :
          /\ time_per_project[i].minutes = 0
          /\ time_per_project[j].minutes > 0
          /\ Cardinality({k \in 1..Len(df_all_time) :
                             df_all_time[k].project = time_per_project[j].title}) >= 2

\* C22: the accumulated series has one value for every date of the day table,
\* in ascending order; the value at a date is the sum of the minutes of all
\* rows of that date or earlier; the series never decreases and ends with the
\* total of the day table.
C22_RunningSum ==
    FiguresBuilt =>
        /\ {df_time_per_day[i].date : i \in 1..Len(df_time_per_day)} =
              {df_all_time[j].date : j \in 1..Len(df_all_time)}
        /\ \A i, j \in 1..Len(df_time_per_day) :
              i < j => /\ df_time_per_day[i].date < df_time_per_day[j].date
                       /\ df_time_per_day[i].cumulative_minutes <=
                             df_time_per_day[j].cumulative_minutes
        /\ \A i \in 1..Len(df_time_per_day) :
              df_time_per_day[i].cumulative_minutes =
                  MinutesOfRows({j \in 1..Len(df_all_time) :
                                    df_all_time[j].date <= df_time_per_day[i].date})
        /\ df_time_per_day[Len(df_time_per_day)].cumulative_minutes = TableMinutes

\* The day table has three dates and its rows are not in the order of the
\* dates; the series grows at every step.
C22_Witness ==
    /\ FiguresBuilt
    /\ Len(df_time_per_day) = 3
    /\ \E i, j \in 1..Len(df_all_time) : i < j /\ df_all_time[i].date > df_all_time[j].date
    /\ df_time_per_day[1].cumulative_minutes < df_time_per_day[2].cumulative_minutes
    /\ df_time_per_day[2].cumulative_minutes < df_time_per_day[3].cumulative_minutes

\* The dates of the day table that fall on a weekday.
DatesOn(weekday) ==
    {df_all_time[i].date : i \in 1..Len(df_all_time)} \cap
    {d \in 19700..19740 : day_name(d) = weekday}

\* C23: the weekday chart has exactly one value for every weekday and every
\* project of the day table; the value, times the number of dates of the day
\* table that fall on the weekday, is the project's minutes on those dates
\* (0 when it has none).
C23_WeekdayAverage ==
    FiguresBuilt =>
        \A w \in 1..Len(weekday_order) :
            \A p \in {df_all_time[i].project : i \in 1..Len(df_all_time)} :
                /\ Cardinality({k \in 1..Len(df_avg_workday_proj) :
                                   /\ df_avg_workday_proj[k].weekday = weekday_order[w]
                                   /\ df_avg_workday_proj[k].project = p}) = 1
                /\ \A k \in 1..Len(df_avg_workday_proj) :
                      (/\ df_avg_workday_proj[k].weekday = weekday_order[w]
                       /\ df_avg_workday_proj[k].project = p) =>
                         LET total == MinutesOfRows({j \in 1..Len(df_all_time) :
                                          /\ df_all_time[j].project = p
                                          /\ day_name(df_all_time[j].date) = weekday_order[w]})
                             n == Cardinality(DatesOn(weekday_order[w]))
                         IN IF total = 0 THEN df_avg_workday_proj[k].minutes = 0
                            ELSE df_avg_workday_proj[k].minutes * n = total

(***************************************************************************)
(* Properties of the slices of the tag pie                                 *)
(***************************************************************************)
TagsBuilt == fig_tags # <<>>

\* The slices of the pie other than 'Untagged'.
NamedSlices == {i \in 1..Len(fig_tags.labels) : fig_tags.labels[i] # "Untagged"}

\* The tag entities whose title is not 'Today', in the order of the collection.
KeptTags == SelectSeq(TagEntities(data), LAMBDA e : e.title.v # "Today")

TagsOfId(id) == {e \in SeqToSet(TagEntities(data)) : e.id = id}

\* C26: every task with time is counted in a slice of the tag pie: the slice
\* 'Untagged' when it carries no tag, the slice of one of its tags otherwise.
C26_TagPieConservation ==
    TagsBuilt =>
        \A j \in TimedRows :
            \E i \in 1..Len(fig_tags.labels) :
                \/ /\ ~has_tag(df_tasks[j].tagIds)
                   /\ fig_tags.labels[i] = "Untagged"
                \/ \E k \in 1..Len(df_tasks[j].tagIds) :
                      \E e \in TagsOfId(df_tasks[j].tagIds[k]) :
                         fig_tags.labels[i] = get_tag_display_name(e.title.v)

\* The cycle went past the tag pie, or stopped in it.
TagStageDone == FiguresBuilt /\ pc # "figures"

\* C28: create_tags_pie_chart yields a pie for every task table; when no task
\* has time and there is no named slice, the pie is the single slice
\* 'Untagged' with the value 0.
C28_PieForEveryTable ==
    TagStageDone =>
        /\ TagsBuilt
        /\ (TimedRows = {} /\ KeptTags = <<>>) =>
              /\ fig_tags.labels = <<"Untagged">>
              /\ fig_tags.values = <<0>>

(***************************************************************************)
(* Entities that share a title                                             *)
(***************************************************************************)
\* The last entity of a collection stored under the given key.
LastKeyed(entities, key) ==
    entities[CHOOSE i \in 1..Len(entities) :
                /\ KeyOf(entities[i]) = key
                /\ \A j \in 1..Len(entities) : KeyOf(entities[j]) = key => j <= i]

\* C27: once the lookup is built, a project (resp. tag) title is looked up to
\* the colour and the icon of one entity: the last project (resp. tag) of that
\* title in the order of the collection.
C27_LastEntityWins ==
    pc = "synced" =>
        /\ \A key \in ProjectKeys :
              /\ project_colors[key] = ExpectedColor(LastKeyed(data.project, key))
              /\ project_icons[key] = GetOr(LastKeyed(data.project, key).icon, StrOf(""))
        /\ \A key \in TagKeys :
              /\ tag_colors[key] = ExpectedColor(LastKeyed(TagEntities(data), key))
              /\ tag_icons[key] = GetOr(LastKeyed(TagEntities(data), key).icon, StrOf(""))

\* Two projects share a title and differ in colour and in icon; the lookup
\* holds the colour and the icon of the second.
C27_Witness ==
    /\ pc = "synced"
    /\ Len(data.project) = 2
    /\ KeyOf(data.project[1]) = KeyOf(data.project[2])
    /\ ExpectedColor(data.project[1]) # ExpectedColor(data.project[2])
    /\ GetOr(data.project[1].icon, StrOf("")) # GetOr(data.project[2].icon, StrOf(""))
    /\ project_colors[KeyOf(data.project[2])] = ExpectedColor(data.project[2])
    /\ project_icons[KeyOf(data.project[2])] = GetOr(data.project[2].icon, StrOf(""))

(***************************************************************************)
(* The input of the pipeline                                               *)
(***************************************************************************)
\* C25: no step of the cycle - the load, the lookup, the normalisers, the day
\* aggregator, the chart builders, the page - changes the parsed raw structure
\* or the files and directories on disk.
C25_InputNeverMutated == [][data' = data /\ files' = files /\ dirs' = dirs]_vars

\* A whole cycle ran over a snapshot with tasks and projects, read from a file.
C25_Witness ==
    /\ pc = "rendered"
    /\ opened # <<>>
    /\ data.task # <<>> /\ data.project # <<>>
    /\ df_all_time # <<>>

\* C29: starting from plot_page = 0, after any sequence of previous-page
\* clicks, next-page clicks and navigate_to_plot calls, plot_page stays within
\* 0..num_pages-1, where num_pages = 1 + ceil(number of plot keys / 2).
C29_PageIndexInRange ==
    (pc = "rendered" /\ "plot_page" \in DOMAIN session_state)
        => page \in 0..(num_pages - 1)

\* C30: for a non-negative whole number of minutes n, minutes_to_hm_str(n) is
\* 'Hh Mm' with H = n div 60 >= 1 and M = n mod 60 when n >= 60, and 'Mm' with
\* M = n when n < 60; M is within 0..59 and 60 * H + M = n, and no other
\* number of minutes gives the same string.
C30_HoursAndMinutes ==
    hm_str # "" =>
        LET n == total_minutes
            HM == CHOOSE hm \in (0..n) \X (0..59) : 60 * hm[1] + hm[2] = n
            H == HM[1]
            M == HM[2]
        IN /\ IF n >= 60
              THEN H >= 1 /\ hm_str = ToString(H) \o "h " \o ToString(M) \o "m"
              ELSE M = n /\ hm_str = ToString(M) \o "m"
           /\ \A k \in 0..MaxMinutes : k # n => minutes_to_hm_str(k) # hm_str

C30_Witness ==
    /\ hm_str # ""
    /\ total_minutes > 60
    /\ total_minutes % 60 # 0
    /\ hm_str = minutes_to_hm_str(total_minutes)

====
